---- MODULE Spec2Model ----
(***************************************************************************)
(* Knowledge-graph descriptor pipeline (rh-kg backend): storage backends,  *)
(* the apply orchestrator, the relationship processor and the validation   *)
(* pipeline, modelled as state machines over small finite universes.       *)
(*                                                                         *)
(* Strings that the code takes apart (entity ids, dependency URIs) are     *)
(* modelled by their structure: a scheme prefix and the "/"-separated      *)
(* segments that follow it, so that prefix tests, slicing and split("/")   *)
(* are computed, not assumed.                                              *)
(***************************************************************************)
EXTENDS Integers, Sequences, FiniteSets, TLC

VARIABLES
    backend,        \* which StorageInterface implementation is in use
    entities,       \* MockStorage.entities: entity_type -> entity_id -> data
    nodes,          \* DgraphStorage: the nodes held by the Dgraph cluster
    edges,          \* relationship edges held by the backend
    clock,          \* wall clock read by datetime.utcnow()/now()
    first_created,  \* history: (type, id) -> created_at of the first store
    document,       \* the descriptor text handed to the validator
    result,         \* what KnowledgeGraphValidator.validate returned
    sync_result,    \* what KnowledgeGraphValidator.validate_sync returned
    plain_result,   \* what validate returned on a validator without storage
    strict,         \* the --strict flag of kg validate
    final_result,   \* final_result of kg validate
    pc,             \* position of the apply command: "idle" or "storing"
    applies,        \* number of apply runs started
    run,            \* arguments and environment of the current/last apply
    records,        \* entities extracted from the descriptor of that run
    idx,            \* loop position in records (1-based)
    entities_created,
    entities_updated,
    exit_code,      \* sys.exit code of the last finished run
    error_type,     \* error_type of the report of the last finished run
    calls,          \* history: storage calls issued by the current/last run
    snapshot,       \* history: backend content when that run started
    prev,           \* history: the run before it
    rel_call,       \* arguments of the replace_entity_relationships call
    rel_result,     \* its outcome
    rel_log,        \* history: storage calls it issued, in order
    disk,           \* the schema directory on disk
    schemas,        \* FileSchemaLoader.schemas
    last_loaded,    \* FileSchemaLoader.last_loaded
    load_pc,        \* position of load_schemas: "idle" or "loading"
    todo,           \* load_schemas: schema files still to read
    base_schemas,   \* load_schemas: local base_schemas
    entity_schemas, \* load_schemas: local entity_schemas being built
    load_result,    \* how the last load_schemas / reload_schemas call ended
    loads,          \* number of load calls started
    committed,      \* history: catalog of the last successful load
    observed,       \* what get_entity_schema last returned to a reader
    old_schemas,    \* detect_changes: the old catalog
    new_schemas,    \* detect_changes: the new catalog
    changes,        \* SchemaChanges returned by detect_changes
    additive,       \* ValidationResult of validate_additive_only
    old_version,    \* is_valid_version_increment: old_version
    new_version,    \* is_valid_version_increment: new_version
    additive_only,  \* is_valid_version_increment: additive_only
    increment       \* what is_valid_version_increment gave

storageVars == <<backend, entities, nodes, edges, clock, first_created>>

validateVars == <<document, result, sync_result, plain_result, strict,
                  final_result>>

applyVars == <<pc, applies, run, records, idx, entities_created,
               entities_updated, exit_code, error_type, calls, snapshot, prev>>

relVars == <<rel_call, rel_result, rel_log>>

loaderVars == <<disk, schemas, last_loaded, load_pc, todo, base_schemas,
                entity_schemas, load_result, loads, committed, observed>>

versionVars == <<old_version, new_version, additive_only, increment>>

migrateVars == <<old_schemas, new_schemas, changes, additive, versionVars>>

vars == <<storageVars, validateVars, applyVars, relVars, loaderVars,
          migrateVars>>

-----------------------------------------------------------------------------
(* Bounds *)

MaxClock == 4

\* apply runs in one behaviour
MaxApplies == 2

\* load_schemas / reload_schemas calls in one behaviour
MaxLoads == 2

-----------------------------------------------------------------------------
(* Structured strings *)

None == "None"

\* an absent timestamp (the key is missing from the dict)
NoTime == 0 - 1

EmptyMap == [x \in {} |-> x]

\* "<scheme><seg1>/<seg2>/..." ; scheme is "" for a plain id
Str(scheme, segs) == [scheme |-> scheme, segs |-> segs]

\* f"{namespace}/{entity_name}"
PlainId(ns, name) == Str("", <<ns, name>>)

Range(s) == {s[i] : i \in 1..Len(s)}

-----------------------------------------------------------------------------
(* MockStorage *)

MockHas(ents, entity_type, entity_id) ==
    /\ entity_type \in DOMAIN ents
    /\ entity_id \in DOMAIN ents[entity_type]

\* MockStorage.store_entity: returns the new value of self.entities
MockStoreEntity(ents, entity_type, entity_id, entity_data, metadata, now) ==
    LET ents1 == IF entity_type \in DOMAIN ents
                 THEN ents
                 ELSE [t \in DOMAIN ents \cup {entity_type} |->
                          IF t = entity_type THEN EmptyMap ELSE ents[t]]
        system_metadata ==
            [base |-> metadata,
             updated_at |-> now,
             created_at |-> IF entity_id \notin DOMAIN ents1[entity_type]
                            THEN now ELSE NoTime]
        complete_data ==
            [id |-> entity_id,
             entity_type |-> entity_type,
             metadata |-> entity_data,
             system_metadata |-> system_metadata]
    IN [t \in DOMAIN ents1 |->
          IF t = entity_type
          THEN [i \in DOMAIN ents1[t] \cup {entity_id} |->
                  IF i = entity_id THEN complete_data ELSE ents1[t][i]]
          ELSE ents1[t]]

\* MockStorage.get_entity: the set of values the call can return ({} = None)
MockGetEntity(ents, entity_type, entity_id) ==
    IF MockHas(ents, entity_type, entity_id)
    THEN LET d == ents[entity_type][entity_id]
         IN {[id |-> d.id,
              entity_type |-> d.entity_type,
              metadata |-> d.metadata,
              system_metadata |-> d.system_metadata.base,
              created_at |-> d.system_metadata.created_at,
              updated_at |-> d.system_metadata.updated_at]}
    ELSE {}

\* MockStorage.entity_exists: any entity type holds the id
MockEntityExists(ents, entity_id) ==
    \E t \in DOMAIN ents : entity_id \in DOMAIN ents[t]

\* number of stored entities with this (type, id)
MockCount(ents, entity_type, entity_id) ==
    IF MockHas(ents, entity_type, entity_id) THEN 1 ELSE 0

-----------------------------------------------------------------------------
(* DgraphStorage *)

\* DgraphStorage.store_entity: the mutation names the blank node
\* "_:<entity_id>", for which Dgraph allocates a fresh uid on every commit
DgraphStoreEntity(nds, entity_type, entity_id, entity_data, metadata, now) ==
    Append(nds,
           [uid |-> Len(nds) + 1,
            entity_id |-> entity_id,
            entity_type |-> entity_type,
            data |-> entity_data,
            system_metadata |-> metadata,
            created_at |-> now])

DgraphMatching(nds, entity_type, entity_id) ==
    {i \in 1..Len(nds) : /\ nds[i].entity_id = entity_id
                         /\ nds[i].entity_type = entity_type}

\* DgraphStorage.get_entity: result.data["entity"][0]; the query fixes no
\* order, so any matching node may be the first one ({} = None)
DgraphGetEntity(nds, entity_type, entity_id) ==
    {[id |-> nds[i].entity_id,
      entity_type |-> nds[i].entity_type,
      metadata |-> nds[i].data,
      system_metadata |-> nds[i].system_metadata,
      created_at |-> nds[i].created_at,
      updated_at |-> NoTime] : i \in DgraphMatching(nds, entity_type, entity_id)}

\* DgraphStorage.entity_exists: count(uid) of eq(entity_id, ...) > 0
DgraphEntityExists(nds, entity_id) ==
    \E i \in 1..Len(nds) : nds[i].entity_id = entity_id

DgraphCount(nds, entity_type, entity_id) ==
    Cardinality(DgraphMatching(nds, entity_type, entity_id))

-----------------------------------------------------------------------------
(* The backend chosen by create_storage *)

Backends == {"mock", "dgraph"}

GetEntity(entity_type, entity_id) ==
    IF backend = "mock"
    THEN MockGetEntity(entities, entity_type, entity_id)
    ELSE DgraphGetEntity(nodes, entity_type, entity_id)

EntityExists(entity_id) ==
    IF backend = "mock"
    THEN MockEntityExists(entities, entity_id)
    ELSE DgraphEntityExists(nodes, entity_id)

\* number of stored entities (nodes) with this (type, id)
EntityCount(entity_type, entity_id) ==
    IF backend = "mock"
    THEN MockCount(entities, entity_type, entity_id)
    ELSE DgraphCount(nodes, entity_type, entity_id)

\* total number of entities held by the backend
TotalEntities ==
    IF backend = "mock"
    THEN Cardinality({<<t, i>> \in
            UNION {{<<t2, i2>> : i2 \in DOMAIN entities[t2]} : t2 \in DOMAIN entities} :
            TRUE})
    ELSE Len(nodes)

Key(entity_type, entity_id) == <<entity_type, entity_id>>

\* one store_entity call on the chosen backend, with the history of the
\* first creation time of each key
DoStoreEntity(entity_type, entity_id, entity_data, metadata) ==
    /\ IF backend = "mock"
       THEN /\ entities' = MockStoreEntity(entities, entity_type, entity_id,
                                           entity_data, metadata, clock)
            /\ UNCHANGED nodes
       ELSE /\ nodes' = DgraphStoreEntity(nodes, entity_type, entity_id,
                                          entity_data, metadata, clock)
            /\ UNCHANGED entities
    /\ first_created' =
          IF Key(entity_type, entity_id) \in DOMAIN first_created
          THEN first_created
          ELSE [k \in DOMAIN first_created \cup {Key(entity_type, entity_id)} |->
                  IF k = Key(entity_type, entity_id) THEN clock
                  ELSE first_created[k]]
    /\ clock' = clock + 1

-----------------------------------------------------------------------------
(* Catalog: the entity schemas the pipeline and the processors work with *)

RelDef(name, target_types) == [name |-> name, target_types |-> target_types]

\* entity_type -> schema.relationships, in declaration order
Schemas ==
    [t \in {"repository", "external_dependency_package",
            "external_dependency_version"} |->
        CASE t = "repository" ->
                <<RelDef("depends_on", <<"external_dependency_version">>),
                  RelDef("internal_depends_on", <<"repository">>)>>
          [] t = "external_dependency_package" ->
                <<RelDef("has_version", <<"external_dependency_version">>)>>
          [] OTHER -> <<>>]

RelNames == {"depends_on", "internal_depends_on", "has_version"}

-----------------------------------------------------------------------------
(* Descriptor documents: the text of a file, given by what yaml.safe_load  *)
(* makes of it                                                             *)

StrVal(v) == [kind |-> "str", v |-> v]
OtherVal == [kind |-> "other", v |-> ""]

NoRels == [kind |-> "absent", map |-> EmptyMap]
RelsDict(m) == [kind |-> "dict", map |-> m]

\* an entity body: the other field values (a token), what the entity model
\* of the schema reports for it (pyd: pydantic error types, already in
\* order), inline relationship-named keys and the nested relationships key
Body(fields, pyd, inline, relationships) ==
    [kind |-> "dict", fields |-> fields, pyd |-> pyd, inline |-> inline,
     relationships |-> relationships]
NonDictBody ==
    [kind |-> "other", fields |-> "", pyd |-> <<>>, inline |-> EmptyMap,
     relationships |-> NoRels]

Named(name, body) == [name |-> name, body |-> body]

\* one element of an entity list: a dict (its items in order) or not
EntityDict(items) == [kind |-> "dict", items |-> items]
NonDictEntity == [kind |-> "other", items |-> <<>>]

\* entity_type: <list of entity dicts>, or a value that is no list
TypeEntry(entity_type, items) ==
    [entity_type |-> entity_type, kind |-> "list", items |-> items]
NonListEntry(entity_type) ==
    [entity_type |-> entity_type, kind |-> "other", items |-> <<>>]

EntitySection(items) == [kind |-> "dict", items |-> items]
NonDictSection == [kind |-> "other", items |-> <<>>]

TopKeys == {"schema_version", "namespace", "entity"}

Mapping(keys, schema_version, namespace, entity) ==
    [yaml |-> "ok", top |-> "mapping", keys |-> keys,
     schema_version |-> schema_version, namespace |-> namespace,
     entity |-> entity]

\* a document whose top level is a list, or a number
NonMapping(top) ==
    [yaml |-> "ok", top |-> top, keys |-> {},
     schema_version |-> OtherVal, namespace |-> OtherVal,
     entity |-> NonDictSection]

\* a text yaml.safe_load rejects (YAMLError), or parses to None
Unparsed(yaml) ==
    [yaml |-> yaml, top |-> "none", keys |-> {},
     schema_version |-> OtherVal, namespace |-> OtherVal,
     entity |-> NonDictSection]

-----------------------------------------------------------------------------
(* Validation pipeline *)

Err(type, field, entity) == [type |-> type, field |-> field, entity |-> entity]

RECURSIVE ConcatAll(_)
ConcatAll(ss) == IF ss = <<>> THEN <<>> ELSE Head(ss) \o ConcatAll(Tail(ss))

RECURSIVE SelectSeqBy(_, _)
SelectSeqBy(s, keep) ==
    IF s = <<>> THEN <<>>
    ELSE (IF Head(s).type \in keep THEN <<Head(s)>> ELSE <<>>)
         \o SelectSeqBy(Tail(s), keep)

\* Layer 1 letting a text through that the parser rejects
YamlSyntaxValidate_C10(content) ==
    CASE content.yaml = "empty" ->
            [is_valid |-> FALSE,
             errors |-> <<Err("empty_yaml_content", None, None)>>]
      [] OTHER -> [is_valid |-> TRUE, errors |-> <<>>]

\* YamlSyntaxValidator.validate (Layer 1)
YamlSyntaxValidate(content) ==
    CASE content.yaml = "syntax_error" ->
            [is_valid |-> FALSE,
             errors |-> <<Err("yaml_syntax_error", None, None)>>]
      [] content.yaml = "empty" ->
            [is_valid |-> FALSE,
             errors |-> <<Err("empty_yaml_content", None, None)>>]
      [] OTHER -> [is_valid |-> TRUE, errors |-> <<>>]

SUPPORTED_VERSIONS == {"1.0.0"}
REQUIRED_FIELDS == <<"schema_version", "namespace", "entity">>

\* re.match(r"^[a-z][a-z0-9_-]*[a-z0-9]$|^[a-z]$", namespace), tabulated
\* over the namespaces the documents use
NamespaceMatches(ns) == ns \in {"demo", "a"}

\* "x in data" raises TypeError when data is a number
Layer2Raises(data) == data.top = "number"

\* SchemaStructureValidator.validate (Layer 2)
SchemaStructureValidate(data) ==
    LET has(f) == f \in data.keys
        missing == ConcatAll([i \in 1..Len(REQUIRED_FIELDS) |->
                      IF has(REQUIRED_FIELDS[i]) THEN <<>>
                      ELSE <<Err("missing_required_field", REQUIRED_FIELDS[i], None)>>])
        version ==
            IF ~has("schema_version") THEN <<>>
            ELSE IF data.schema_version.kind # "str"
                 THEN <<Err("invalid_field_type", "schema_version", None)>>
            ELSE IF data.schema_version.v \notin SUPPORTED_VERSIONS
                 THEN <<Err("unsupported_schema_version", "schema_version", None)>>
            ELSE <<>>
        namespace ==
            IF ~has("namespace") THEN <<>>
            ELSE IF data.namespace.kind # "str"
                 THEN <<Err("invalid_field_type", "namespace", None)>>
            ELSE IF ~NamespaceMatches(data.namespace.v)
                 THEN <<Err("invalid_namespace_format", "namespace", None)>>
            ELSE <<>>
        entity ==
            IF has("entity") /\ data.entity.kind # "dict"
            THEN <<Err("invalid_field_type", "entity", None)>>
            ELSE <<>>
    IN missing \o version \o namespace \o entity

CRITICAL_STRUCTURE == {"missing_required_field", "unsupported_schema_version"}

\* FieldFormatValidator.validate raises (no PydanticValidationError) when
\* the entity section is no dict, or an entity body is no mapping
Layer3Raises(data) ==
    \/ data.entity.kind # "dict"
    \/ \E i \in 1..Len(data.entity.items) :
          LET e == data.entity.items[i] IN
          /\ e.entity_type \in DOMAIN Schemas
          /\ e.kind = "list"
          /\ \E j \in 1..Len(e.items) :
                /\ e.items[j].kind = "dict"
                /\ \E k \in 1..Len(e.items[j].items) :
                      e.items[j].items[k].body.kind # "dict"

\* the errors of the per-entity pass of FieldFormatValidator.validate
EntityFormatErrors(data) ==
    LET entries == data.entity.items
        unknown == ConcatAll([i \in 1..Len(entries) |->
            IF entries[i].entity_type \in DOMAIN Schemas THEN <<>>
            ELSE <<Err("unknown_entity_type", "entity", None)>>])
        ofNamed(nb) ==
            [k \in 1..Len(nb.body.pyd) |-> Err(nb.body.pyd[k], "field", nb.name)]
        ofDict(e, d) ==
            IF d.kind # "dict"
            THEN <<Err("invalid_entity_structure", e.entity_type, None)>>
            ELSE ConcatAll([k \in 1..Len(d.items) |-> ofNamed(d.items[k])])
        ofEntry(e) ==
            IF e.entity_type \notin DOMAIN Schemas THEN <<>>
            ELSE IF e.kind # "list"
                 THEN <<Err("invalid_field_type", e.entity_type, None)>>
            ELSE ConcatAll([j \in 1..Len(e.items) |-> ofDict(e, e.items[j])])
    IN unknown \o ConcatAll([i \in 1..Len(entries) |-> ofEntry(entries[i])])

\* the errors of root_model(**data), converted by _convert_pydantic_errors
RootModelErrors(data) ==
    (IF data.schema_version.kind # "str"
     THEN <<Err("invalid_field_type", "schema_version", None)>> ELSE <<>>)
    \o (IF data.namespace.kind # "str"
        THEN <<Err("invalid_field_type", "namespace", None)>>
        ELSE IF ~NamespaceMatches(data.namespace.v)
             THEN <<Err("pattern_mismatch", "namespace", None)>>
        ELSE <<>>)

\* FieldFormatValidator.validate (Layer 3); model None is has_model FALSE
FieldFormatValidate(data) ==
    LET errors == EntityFormatErrors(data) IN
    IF errors # <<>> THEN [has_model |-> FALSE, errors |-> errors]
    ELSE IF RootModelErrors(data) # <<>>
         THEN [has_model |-> FALSE, errors |-> RootModelErrors(data)]
    ELSE [has_model |-> TRUE, errors |-> <<>>]

\* model.entity.repository: the entity dicts listed under "repository"
ModelRepositories(model) ==
    LET entries == model.entity.items IN
    ConcatAll([i \in 1..Len(entries) |->
        IF entries[i].entity_type = "repository" THEN entries[i].items
        ELSE <<>>])

\* getattr(repo_data, "depends_on", None) or []: the root model keeps each
\* entity body as a plain dict (list[dict[str, Any]]), and a dict has no
\* such attribute
ModelDependsOn(repo_data) ==
    IF repo_data.kind = "dict" THEN <<>>
    ELSE IF "depends_on" \in DOMAIN repo_data.inline
         THEN repo_data.inline["depends_on"] ELSE <<>>

\* the (entity name, body) pairs of the repositories, in order
ModelRepoItems(model) ==
    LET repositories == ModelRepositories(model) IN
    ConcatAll([i \in 1..Len(repositories) |-> repositories[i].items])

DepPrefix(dep_ref) == dep_ref.scheme

\* BusinessLogicValidator._validate_external_dependency
ValidateExternalDependency(dep_ref, repo_name) ==
    LET ref_parts == dep_ref.segs IN
    IF Len(ref_parts) < 3
    THEN <<Err("invalid_external_dependency", "depends_on", repo_name)>>
    ELSE IF ref_parts[1] \notin {"pypi", "npm", "golang.org", "github.com", "crates.io"}
         THEN <<Err("unsupported_ecosystem", "depends_on", repo_name)>>
    ELSE IF Len(ref_parts) = 3 /\ ref_parts[2] = ""
         THEN <<Err("empty_package_name", "depends_on", repo_name)>>
    ELSE IF ref_parts[Len(ref_parts)] = ""
         THEN <<Err("empty_version", "depends_on", repo_name)>>
    ELSE <<>>

\* BusinessLogicValidator._validate_internal_dependency
ValidateInternalDependency(dep_ref, repo_name) ==
    LET ref_parts == dep_ref.segs IN
    IF Len(ref_parts) # 2
    THEN <<Err("invalid_internal_dependency", "depends_on", repo_name)>>
    ELSE IF ~NamespaceMatches(ref_parts[1])
         THEN <<Err("invalid_internal_namespace", "depends_on", repo_name)>>
    ELSE IF ref_parts[2] = ""
         THEN <<Err("empty_entity_name", "depends_on", repo_name)>>
    ELSE <<>>

\* BusinessLogicValidator._validate_dependency_references
ValidateDependencyReferences(model) ==
    LET items == ModelRepoItems(model)
        ofRef(dep_ref, repo_name) ==
            IF DepPrefix(dep_ref) = "external://"
            THEN ValidateExternalDependency(dep_ref, repo_name)
            ELSE IF DepPrefix(dep_ref) = "internal://"
                 THEN ValidateInternalDependency(dep_ref, repo_name)
            ELSE <<Err("invalid_dependency_reference", "depends_on", repo_name)>>
        ofItem(nb) ==
            LET depends_on == ModelDependsOn(nb.body) IN
            ConcatAll([k \in 1..Len(depends_on) |-> ofRef(depends_on[k], nb.name)])
    IN ConcatAll([i \in 1..Len(items) |-> ofItem(items[i])])

\* BusinessLogicValidator._validate_unique_names
ValidateUniqueNames(model) ==
    LET items == ModelRepoItems(model)
        names == [i \in 1..Len(items) |-> items[i].name] IN
    ConcatAll([i \in 1..Len(names) |->
        IF \E j \in 1..(i - 1) : names[j] = names[i]
        THEN <<Err("duplicate_entity_name", "repository", names[i])>>
        ELSE <<>>])

\* the owners field held in the field values of a body
Owner(local, domain) == [local |-> local, domain |-> domain]
Owners(fields) ==
    IF fields = "f3"
    THEN <<Owner("ann", "a.example"), Owner("bob", "b.example")>>
    ELSE <<Owner("ann", "a.example")>>

\* getattr(repo_data, "owners", None) or []: a plain dict has no such
\* attribute
ModelOwners(repo_data) ==
    IF repo_data.kind = "dict" THEN <<>> ELSE Owners(repo_data.fields)

\* BusinessLogicValidator._validate_owner_domains
ValidateOwnerDomains(model) ==
    LET items == ModelRepoItems(model)
        domains == UNION {{o.domain : o \in Range(ModelOwners(items[i].body))} :
                          i \in 1..Len(items)}
    IN IF Cardinality(domains) > 1
       THEN <<Err("multiple_owner_domains", "owners", None)>>
       ELSE <<>>

\* BusinessLogicValidator.validate (Layer 4)
BusinessLogicValidate(model) ==
    ValidateDependencyReferences(model) \o ValidateOwnerDomains(model)
        \o ValidateUniqueNames(model)

\* storage.entity_exists on a backend with the given content
StorageEntityExists(storage, entity_id) ==
    IF storage.backend = "mock"
    THEN MockEntityExists(storage.entities, entity_id)
    ELSE DgraphEntityExists(storage.nodes, entity_id)

\* dep_ref[11:]: the reference without its "internal://"
ReferenceEntityId(dep_ref) == Str("", dep_ref.segs)

\* ReferenceValidator.validate (Layer 5)
ReferenceValidate(model, storage) ==
    LET items == ModelRepoItems(model)
        ofRef(dep_ref, repo_name) ==
            IF DepPrefix(dep_ref) = "internal://"
               /\ ~StorageEntityExists(storage, ReferenceEntityId(dep_ref))
            THEN <<Err("reference_not_found", "depends_on", repo_name)>>
            ELSE <<>>
        ofItem(nb) ==
            LET depends_on == ModelDependsOn(nb.body) IN
            ConcatAll([k \in 1..Len(depends_on) |-> ofRef(depends_on[k], nb.name)])
    IN ConcatAll([i \in 1..Len(items) |-> ofItem(items[i])])

Result(is_valid, errors, warnings, has_model) ==
    [outcome |-> "returned", is_valid |-> is_valid, errors |-> errors,
     warnings |-> warnings, has_model |-> has_model]

\* the call ends with an exception instead of a ValidationResult
Raised ==
    [outcome |-> "raised", is_valid |-> FALSE, errors |-> <<>>,
     warnings |-> <<>>, has_model |-> FALSE]

\* the pipeline keeping only the critical errors at the Layer 2 exit
Pipeline_C11(content, use_storage, storage) ==
    LET l1 == YamlSyntaxValidate(content) IN
    IF ~l1.is_valid THEN Result(FALSE, l1.errors, <<>>, FALSE)
    ELSE IF Layer2Raises(content) THEN Raised
    ELSE
    LET structure_errors == SchemaStructureValidate(content) IN
    IF SelectSeqBy(structure_errors, CRITICAL_STRUCTURE) # <<>>
    THEN Result(FALSE, SelectSeqBy(structure_errors, CRITICAL_STRUCTURE), <<>>, FALSE)
    ELSE Result(FALSE, structure_errors, <<>>, FALSE)

\* KnowledgeGraphValidator.validate: Layer 5 runs when use_storage
\* (self.storage is set)
Pipeline(content, use_storage, storage) ==
    LET l1 == YamlSyntaxValidate(content) IN
    IF ~l1.is_valid THEN Result(FALSE, l1.errors, <<>>, FALSE)
    ELSE IF Layer2Raises(content) THEN Raised
    ELSE
    LET structure_errors == SchemaStructureValidate(content) IN
    IF SelectSeqBy(structure_errors, CRITICAL_STRUCTURE) # <<>>
    THEN Result(FALSE, structure_errors, <<>>, FALSE)
    ELSE IF Layer3Raises(content) THEN Raised
    ELSE
    LET l3 == FieldFormatValidate(content) IN
    IF ~l3.has_model
    THEN Result(FALSE, structure_errors \o l3.errors, <<>>, FALSE)
    ELSE
    LET business_errors == BusinessLogicValidate(content)
        warnings == SelectSeqBy(business_errors, {"multiple_owner_domains"})
        kept == SelectSeqBy(business_errors,
                   {e.type : e \in Range(business_errors)}
                       \ {"multiple_owner_domains"})
        reference_errors ==
            IF use_storage THEN ReferenceValidate(content, storage) ELSE <<>>
        errors == structure_errors \o kept \o reference_errors
    IN Result(errors = <<>>, errors, warnings, errors = <<>>)

\* the backend the validator was built with, as it is now
CurrentStorage == [backend |-> backend, entities |-> entities, nodes |-> nodes]

\* KnowledgeGraphValidator.validate on a validator built with storage
Validate(content) == Pipeline(content, TRUE, CurrentStorage)

\* KnowledgeGraphValidator.validate on a validator built without storage
ValidateNoStorage(content) == Pipeline(content, FALSE, CurrentStorage)

\* validate_sync leaving out Layer 4 as well
PipelineSync_C15(content) ==
    LET l1 == YamlSyntaxValidate(content) IN
    IF ~l1.is_valid THEN Result(FALSE, l1.errors, <<>>, FALSE)
    ELSE IF Layer2Raises(content) THEN Raised
    ELSE
    LET structure_errors == SchemaStructureValidate(content) IN
    IF SelectSeqBy(structure_errors, CRITICAL_STRUCTURE) # <<>>
    THEN Result(FALSE, structure_errors, <<>>, FALSE)
    ELSE IF Layer3Raises(content) THEN Raised
    ELSE
    LET l3 == FieldFormatValidate(content) IN
    IF ~l3.has_model
    THEN Result(FALSE, structure_errors \o l3.errors, <<>>, FALSE)
    ELSE Result(structure_errors = <<>>, structure_errors, <<>>,
                structure_errors = <<>>)

\* KnowledgeGraphValidator.validate_sync: Layers 1 to 4, no Layer 5
PipelineSync(content) ==
    LET l1 == YamlSyntaxValidate(content) IN
    IF ~l1.is_valid THEN Result(FALSE, l1.errors, <<>>, FALSE)
    ELSE IF Layer2Raises(content) THEN Raised
    ELSE
    LET structure_errors == SchemaStructureValidate(content) IN
    IF SelectSeqBy(structure_errors, CRITICAL_STRUCTURE) # <<>>
    THEN Result(FALSE, structure_errors, <<>>, FALSE)
    ELSE IF Layer3Raises(content) THEN Raised
    ELSE
    LET l3 == FieldFormatValidate(content) IN
    IF ~l3.has_model
    THEN Result(FALSE, structure_errors \o l3.errors, <<>>, FALSE)
    ELSE
    LET business_errors == BusinessLogicValidate(content)
        warnings == SelectSeqBy(business_errors, {"multiple_owner_domains"})
        kept == SelectSeqBy(business_errors,
                   {e.type : e \in Range(business_errors)}
                       \ {"multiple_owner_domains"})
        errors == structure_errors \o kept
    IN Result(errors = <<>>, errors, warnings, errors = <<>>)

ValidateSync(content) == PipelineSync(content)

\* kg validate: the validator is built without storage; an exception of
\* validate ends the command with exit 4; with --strict and at least one
\* warning the warnings become errors of the final result
CliValidate(content, strict_flag) ==
    LET r == ValidateNoStorage(content) IN
    IF r.outcome = "raised" THEN Raised
    ELSE IF strict_flag /\ Len(r.warnings) > 0
         THEN [r EXCEPT !.is_valid = FALSE,
                        !.errors = r.errors \o r.warnings,
                        !.warnings = <<>>]
         ELSE r

-----------------------------------------------------------------------------
(* Relationship views of the backends *)

\* metadata of a stored entity: the plain fields (a token) and the keys
\* that hold lists
Meta(fields, lists) == [fields |-> fields, lists |-> lists]

SchemaRelNames(entity_type) ==
    IF entity_type \in DOMAIN Schemas
    THEN {Schemas[entity_type][i].name : i \in 1..Len(Schemas[entity_type])}
    ELSE {}

Edge(source_type, source_id, relationship_type, target_type, target_id) ==
    [source_type |-> source_type, source_id |-> source_id,
     relationship_type |-> relationship_type,
     target_type |-> target_type, target_id |-> target_id]

\* target ids of the edges of one relationship type that leave an entity
EdgeTargets(es, source_type, source_id, relationship_type) ==
    {e.target_id : e \in {x \in es : /\ x.source_type = source_type
                                     /\ x.source_id = source_id
                                     /\ x.relationship_type = relationship_type}}

\* MockStorage.get_entity_relationships, for one relationship name: the
\* mock reads the targets from the list stored in the entity's metadata
MockRelationshipTargets(ents, entity_type, entity_id, name) ==
    IF /\ MockHas(ents, entity_type, entity_id)
       /\ name \in SchemaRelNames(entity_type)
       /\ name \in DOMAIN ents[entity_type][entity_id].metadata.lists
    THEN Range(ents[entity_type][entity_id].metadata.lists[name])
    ELSE {}

\* the targets of the name-edges that leave the entity in the backend
OutgoingTargets(entity_type, entity_id, name) ==
    IF backend = "mock"
    THEN MockRelationshipTargets(entities, entity_type, entity_id, name)
    ELSE EdgeTargets(edges, entity_type, entity_id, name)

-----------------------------------------------------------------------------
(* kg apply *)

\* dict.update: the keys of b override those of a
Update(a, b) ==
    [k \in DOMAIN a \cup DOMAIN b |-> IF k \in DOMAIN b THEN b[k] ELSE a[k]]

\* _extract_entities_from_yaml giving each record its bare name as id
ExtractEntitiesFromYaml_C30(parsed_data) ==
    LET namespace == IF "namespace" \in parsed_data.keys
                     THEN parsed_data.namespace.v ELSE ""
        record(entity_type, nb) ==
            LET relationships ==
                    IF nb.body.relationships.kind = "dict"
                    THEN nb.body.relationships.map ELSE EmptyMap
            IN [entity_type |-> entity_type,
                entity_id |-> Str("", <<nb.name>>),
                metadata |-> Meta(nb.body.fields,
                                  Update(nb.body.inline, relationships)),
                relationships |-> relationships,
                system_metadata |-> [namespace |-> namespace,
                                     source_name |-> nb.name]]
        ofDict(entity_type, d) ==
            IF d.kind # "dict" THEN <<>>
            ELSE ConcatAll([k \in 1..Len(d.items) |->
                    IF d.items[k].body.kind = "dict"
                    THEN <<record(entity_type, d.items[k])>> ELSE <<>>])
        ofEntry(e) ==
            IF e.kind # "list" THEN <<>>
            ELSE ConcatAll([j \in 1..Len(e.items) |->
                    ofDict(e.entity_type, e.items[j])])
        entries == parsed_data.entity.items
    IN IF "entity" \in parsed_data.keys /\ parsed_data.entity.kind = "dict"
       THEN ConcatAll([i \in 1..Len(entries) |-> ofEntry(entries[i])])
       ELSE <<>>

\* _extract_entities_from_yaml
ExtractEntitiesFromYaml(parsed_data) ==
    LET namespace == IF "namespace" \in parsed_data.keys
                     THEN parsed_data.namespace.v ELSE ""
        record(entity_type, nb) ==
            LET relationships ==
                    IF nb.body.relationships.kind = "dict"
                    THEN nb.body.relationships.map ELSE EmptyMap
            IN [entity_type |-> entity_type,
                entity_id |-> IF namespace # ""
                              THEN PlainId(namespace, nb.name)
                              ELSE Str("", <<nb.name>>),
                metadata |-> Meta(nb.body.fields,
                                  Update(nb.body.inline, relationships)),
                relationships |-> relationships,
                system_metadata |-> [namespace |-> namespace,
                                     source_name |-> nb.name]]
        ofDict(entity_type, d) ==
            IF d.kind # "dict" THEN <<>>
            ELSE ConcatAll([k \in 1..Len(d.items) |->
                    IF d.items[k].body.kind = "dict"
                    THEN <<record(entity_type, d.items[k])>> ELSE <<>>])
        ofEntry(e) ==
            IF e.kind # "list" THEN <<>>
            ELSE ConcatAll([j \in 1..Len(e.items) |->
                    ofDict(e.entity_type, e.items[j])])
        entries == parsed_data.entity.items
    IN IF "entity" \in parsed_data.keys /\ parsed_data.entity.kind = "dict"
       THEN ConcatAll([i \in 1..Len(entries) |-> ofEntry(entries[i])])
       ELSE <<>>

NoCode == 0 - 1

Outcome(code, type) == [exit_code |-> code, error_type |-> type]

\* what can go wrong around one run: nothing, the file, the catalog load,
\* the --server flag, the connection, or the backend's dry-run simulation
Envs == {"ok", "file_missing", "file_unreadable", "catalog_fails",
         "server", "connect_fails", "dry_run_raises"}

\* _apply_implementation up to the end of validation: the exit the run
\* takes, or NoCode when it goes on to the storage stage
PreStorage_C6(env, text, validation) ==
    CASE env = "file_missing" -> Outcome(2, "file_not_found")
      [] env = "file_unreadable" -> Outcome(2, "file_read_error")
      [] text.yaml = "syntax_error" -> Outcome(1, "yaml_parse_error")
      [] env = "catalog_fails" -> Outcome(NoCode, "")
      [] env \in {"server", "connect_fails"} ->
            Outcome(3, "storage_connection_error")
      [] validation.outcome = "raised" -> Outcome(4, "validation_error")
      [] OTHER -> Outcome(NoCode, "")

\* the early exits with a failed connection reported as an internal error
PreStorage_C23(env, text, validation) ==
    CASE env = "file_missing" -> Outcome(2, "file_not_found")
      [] env = "file_unreadable" -> Outcome(2, "file_read_error")
      [] text.yaml = "syntax_error" -> Outcome(1, "yaml_parse_error")
      [] env = "catalog_fails" -> Outcome(4, "schema_load_error")
      [] env \in {"server", "connect_fails"} ->
            Outcome(4, "storage_connection_error")
      [] validation.outcome = "raised" -> Outcome(4, "validation_error")
      [] ~validation.is_valid -> Outcome(1, "validation_failed")
      [] OTHER -> Outcome(NoCode, "")

PreStorage(env, text, validation) ==
    CASE env = "file_missing" -> Outcome(2, "file_not_found")
      [] env = "file_unreadable" -> Outcome(2, "file_read_error")
      [] text.yaml = "syntax_error" -> Outcome(1, "yaml_parse_error")
      [] env = "catalog_fails" -> Outcome(4, "schema_load_error")
      [] env \in {"server", "connect_fails"} ->
            Outcome(3, "storage_connection_error")
      [] validation.outcome = "raised" -> Outcome(4, "validation_error")
      [] ~validation.is_valid -> Outcome(1, "validation_failed")
      [] OTHER -> Outcome(NoCode, "")

\* the run got as far as running the validation pipeline
ReachedValidation(env, text) ==
    /\ env \notin {"file_missing", "file_unreadable", "catalog_fails",
                   "server", "connect_fails"}
    /\ text.yaml # "syntax_error"

\* one storage call of a run: the record it is for, what the lookup found,
\* whether the call raised
Call(op, rec, found, raised) ==
    [op |-> op, rec |-> rec, found |-> found, raised |-> raised]

WriteOps == {"store_entity", "create_relationship", "remove_relationship",
             "remove_relationships_by_type"}

\* MockStorage.dry_run_apply: the backend content it leaves and its result
MockDryRunApply_C7(ents, recs) ==
    [entities |->
        IF recs = <<>> THEN ents
        ELSE MockStoreEntity(ents, recs[1].entity_type, recs[1].entity_id,
                             recs[1].metadata, recs[1].system_metadata, 0),
     would_create |-> {}, would_update |-> {}, has_errors |-> FALSE]

MockDryRunApply(ents, recs) ==
    [entities |-> ents,
     would_create |-> {i \in 1..Len(recs) :
                         ~MockHas(ents, recs[i].entity_type, recs[i].entity_id)},
     would_update |-> {i \in 1..Len(recs) :
                         MockHas(ents, recs[i].entity_type, recs[i].entity_id)},
     has_errors |-> FALSE]

\* DgraphStorage.dry_run_apply: a summary only
DgraphDryRunApply(nds, recs) ==
    [nodes |-> nds, would_create |-> {}, would_update |-> {},
     has_errors |-> FALSE]

Snapshot == [entities |-> entities, nodes |-> nodes, edges |-> edges]

NoRun == [text |-> Unparsed("empty"), dry_run |-> FALSE, env |-> "ok"]
NoPrev == [text |-> Unparsed("empty"), applied |-> FALSE]

\* the "operations" list of the JSON summary of a run that stored its
\* records: the first entities_created positions read "created", the others
\* "updated" (enumerate counts from 0)
Operations ==
    [i \in 1..Len(records) |->
        [entity_type |-> records[i].entity_type,
         entity_id |-> records[i].entity_id,
         operation |-> IF i - 1 < entities_created THEN "created"
                       ELSE "updated"]]

\* the run that just ended stored its descriptor
Applied == exit_code = 0 /\ ~run.dry_run /\ applies > 0

-----------------------------------------------------------------------------
(* Relationship processor *)

\* StorageInterface.remove_relationships_by_type: every edge of the type
\* that leaves the entity is removed; the count removed is returned
RemoveRelationshipsByType(es, source_entity_type, source_entity_id, relationship_type) ==
    LET gone == {e \in es : /\ e.source_type = source_entity_type
                            /\ e.source_id = source_entity_id
                            /\ e.relationship_type = relationship_type}
    IN [edges |-> es \ gone, removed_count |-> Cardinality(gone)]

\* StorageInterface.create_relationship: the edge exists afterwards, whether
\* or not its endpoints are stored entities
CreateRelationship(es, source_entity_type, source_entity_id, relationship_type, target_entity_type, target_entity_id) ==
    es \cup {Edge(source_entity_type, source_entity_id, relationship_type,
                  target_entity_type, target_entity_id)}

\* _determine_external_dependency_type with the threshold one segment lower
DetermineExternalDependencyType_C28(target_id) ==
    LET segments == target_id.segs IN
    IF Len(segments) >= 2 THEN "external_dependency_version"
    ELSE "external_dependency_package"

\* GenericRelationshipProcessor._determine_external_dependency_type
DetermineExternalDependencyType(target_id) ==
    LET segments == target_id.segs IN
    IF Len(segments) >= 3 THEN "external_dependency_version"
    ELSE "external_dependency_package"

\* GenericRelationshipProcessor._determine_internal_dependency_type
DetermineInternalDependencyType(target_id, relationship) ==
    IF "repository" \in Range(relationship.target_types) THEN "repository"
    ELSE IF relationship.target_types # <<>>
         THEN relationship.target_types[1]
    ELSE "repository"

\* GenericRelationshipProcessor._determine_target_entity_type
DetermineTargetEntityType(relationship, target_id) ==
    IF target_id.scheme = "external://"
    THEN DetermineExternalDependencyType(target_id)
    ELSE IF target_id.scheme = "internal://"
         THEN DetermineInternalDependencyType(target_id, relationship)
    ELSE IF relationship.target_types # <<>>
         THEN relationship.target_types[1]
    ELSE "unknown"

\* a storage call of the processor, as the storage sees it
RelCall(op, source_type, source_id, relationship_type, target_type, target_id, outcome) ==
    [op |-> op, source_type |-> source_type, source_id |-> source_id,
     relationship_type |-> relationship_type, target_type |-> target_type,
     target_id |-> target_id, outcome |-> outcome]

\* what the storage does to the calls for one relationship name
Fault(name, kind) == [name |-> name, kind |-> kind]
NoFault == Fault("", "none")

Hits(fault, name, kind) == fault.name = name /\ fault.kind = kind

\* the inner loop of replace_entity_relationships: one create_relationship
\* per target; a False result clears success, an exception leaves the loop
RECURSIVE CreateRelationships(_, _, _, _, _, _)
CreateRelationships(acc, entity_type, entity_id, relationship, targets, fault) ==
    IF targets = <<>> THEN acc
    ELSE
    LET target_id == Head(targets)
        name == relationship.name
        target_entity_type == DetermineTargetEntityType(relationship, target_id)
        call(outcome) == RelCall("create_relationship", entity_type, entity_id,
                                 name, target_entity_type, target_id, outcome)
    IN IF Hits(fault, name, "create_raises")
       THEN [edges |-> acc.edges, log |-> Append(acc.log, call("raised")),
             success |-> FALSE]
       ELSE IF Hits(fault, name, "create_false")
       THEN CreateRelationships(
                [edges |-> acc.edges, log |-> Append(acc.log, call("False")),
                 success |-> FALSE],
                entity_type, entity_id, relationship, Tail(targets), fault)
       ELSE CreateRelationships(
                [edges |-> CreateRelationship(acc.edges, entity_type, entity_id,
                                              name, target_entity_type, target_id),
                 log |-> Append(acc.log, call("True")),
                 success |-> acc.success],
                entity_type, entity_id, relationship, Tail(targets), fault)

\* the body of the loop over schema.relationships, with creation only
ReplaceRelationshipType_C3(acc, entity_type, entity_id, relationship, yaml_relationships, fault) ==
    LET name == relationship.name
        yaml_targets == IF name \in DOMAIN yaml_relationships
                        THEN yaml_relationships[name] ELSE <<>>
    IN CreateRelationships(acc, entity_type, entity_id, relationship,
                           yaml_targets, fault)

\* the body of the loop over schema.relationships with the two storage steps
\* in the other order: create one edge per YAML target, then remove
ReplaceRelationshipType_C24(acc, entity_type, entity_id, relationship, yaml_relationships, fault) ==
    LET name == relationship.name
        yaml_targets == IF name \in DOMAIN yaml_relationships
                        THEN yaml_relationships[name] ELSE <<>>
        created == CreateRelationships(acc, entity_type, entity_id,
                                       relationship, yaml_targets, fault)
    IN [edges |-> RemoveRelationshipsByType(created.edges, entity_type,
                                            entity_id, name).edges,
        log |-> Append(created.log,
                       RelCall("remove_relationships_by_type", entity_type,
                               entity_id, name, "", Str("", <<>>), "True")),
        success |-> created.success]

\* the body of the loop over schema.relationships with an exception handler
\* that leaves success as it was
ReplaceRelationshipType_C29(acc, entity_type, entity_id, relationship, yaml_relationships, fault) ==
    LET name == relationship.name
        yaml_targets == IF name \in DOMAIN yaml_relationships
                        THEN yaml_relationships[name] ELSE <<>>
        removal(outcome) ==
            RelCall("remove_relationships_by_type", entity_type, entity_id,
                    name, "", Str("", <<>>), outcome)
    IN IF Hits(fault, name, "remove_raises")
       THEN [edges |-> acc.edges, log |-> Append(acc.log, removal("raised")),
             success |-> acc.success]
       ELSE CreateRelationships(
                [edges |-> RemoveRelationshipsByType(acc.edges, entity_type,
                                                     entity_id, name).edges,
                 log |-> Append(acc.log, removal("True")),
                 success |-> acc.success],
                entity_type, entity_id, relationship, yaml_targets, fault)

\* the body of the loop over schema.relationships: remove every edge of the
\* type, then create one per YAML target
ReplaceRelationshipType(acc, entity_type, entity_id, relationship, yaml_relationships, fault) ==
    LET name == relationship.name
        yaml_targets == IF name \in DOMAIN yaml_relationships
                        THEN yaml_relationships[name] ELSE <<>>
        removal(outcome) ==
            RelCall("remove_relationships_by_type", entity_type, entity_id,
                    name, "", Str("", <<>>), outcome)
    IN IF Hits(fault, name, "remove_raises")
       THEN [edges |-> acc.edges, log |-> Append(acc.log, removal("raised")),
             success |-> FALSE]
       ELSE CreateRelationships(
                [edges |-> RemoveRelationshipsByType(acc.edges, entity_type,
                                                     entity_id, name).edges,
                 log |-> Append(acc.log, removal("True")),
                 success |-> acc.success],
                entity_type, entity_id, relationship, yaml_targets, fault)

RECURSIVE ReplaceRelationshipTypes(_, _, _, _, _, _)
ReplaceRelationshipTypes(acc, entity_type, entity_id, relationships, yaml_relationships, fault) ==
    IF relationships = <<>> THEN acc
    ELSE ReplaceRelationshipTypes(
             ReplaceRelationshipType(acc, entity_type, entity_id,
                                     Head(relationships), yaml_relationships,
                                     fault),
             entity_type, entity_id, Tail(relationships), yaml_relationships,
             fault)

\* replace_entity_relationships looping over every relationship definition of
\* the catalog instead of those of the entity type's schema
ReplaceEntityRelationships_C25(es, entity_type, entity_id, yaml_relationships, fault) ==
    IF entity_type \notin DOMAIN Schemas
    THEN [edges |-> es, log |-> <<>>, result |-> "ValueError"]
    ELSE LET done == ReplaceRelationshipTypes(
                         [edges |-> es, log |-> <<>>, success |-> TRUE],
                         entity_type, entity_id,
                         Schemas["repository"]
                             \o Schemas["external_dependency_package"],
                         yaml_relationships, fault)
         IN [edges |-> done.edges, log |-> done.log,
             result |-> IF done.success THEN "True" ELSE "False"]

\* GenericRelationshipProcessor.replace_entity_relationships: the edges it
\* leaves, the calls it issued and what it returned
ReplaceEntityRelationships(es, entity_type, entity_id, yaml_relationships, fault) ==
    IF entity_type \notin DOMAIN Schemas
    THEN [edges |-> es, log |-> <<>>, result |-> "ValueError"]
    ELSE LET done == ReplaceRelationshipTypes(
                         [edges |-> es, log |-> <<>>, success |-> TRUE],
                         entity_type, entity_id, Schemas[entity_type],
                         yaml_relationships, fault)
         IN [edges |-> done.edges, log |-> done.log,
             result |-> IF done.success THEN "True" ELSE "False"]

-----------------------------------------------------------------------------
(* Schema loader *)

\* FieldDefinition: the attributes the loader and the migration checks read
FieldDefinition(type, required, validation) ==
    [type |-> type, required |-> required, validation |-> validation]

\* RelationshipDefinition
RelationshipDefinition(target_types, cardinality) ==
    [target_types |-> target_types, cardinality |-> cardinality]

\* EntitySchema: each field list as name -> FieldDefinition, the
\* relationships as name -> RelationshipDefinition
EntitySchema(required_fields, optional_fields, readonly_fields, relationships, dgraph_type) ==
    [required_fields |-> required_fields, optional_fields |-> optional_fields,
     readonly_fields |-> readonly_fields, relationships |-> relationships,
     dgraph_type |-> dgraph_type]

\* d.copy() followed by d.update(e)
Updated(d, e) ==
    [k \in DOMAIN d \cup DOMAIN e |-> IF k \in DOMAIN e THEN e[k] ELSE d[k]]

\* a schema file: what yaml.safe_load gives for it ("yaml_error" when it
\* raises), with the keys of the mapping the loader reads
SchemaData(entity_type, extends, required_metadata, optional_metadata, readonly_metadata, relationships, dgraph_type) ==
    [yaml |-> "ok", has_entity_type |-> TRUE, has_schema_version |-> TRUE,
     entity_type |-> entity_type, extends |-> extends,
     required_metadata |-> required_metadata,
     optional_metadata |-> optional_metadata,
     readonly_metadata |-> readonly_metadata,
     relationships |-> relationships, dgraph_type |-> dgraph_type]

\* FileSchemaLoader._resolve_inheritance: "" stands for no extends key;
\* the result is the merged readonly_metadata, or the inheritance error
ResolveInheritance(schema_data, bases) ==
    IF schema_data.extends = ""
    THEN [raised |-> FALSE, readonly_metadata |-> schema_data.readonly_metadata]
    ELSE IF schema_data.extends \notin DOMAIN bases
    THEN [raised |-> TRUE, readonly_metadata |-> EmptyMap]
    ELSE [raised |-> FALSE,
          readonly_metadata |->
              Updated(bases[schema_data.extends], schema_data.readonly_metadata)]

\* FileSchemaLoader._parse_field_definitions: field_config.get("type", ...)
\* and .get("validation") of every entry, required as given
ParseFieldDefinitions(fields_data, required) ==
    [n \in DOMAIN fields_data |->
        FieldDefinition(fields_data[n].type, required, fields_data[n].validation)]

\* FileSchemaLoader._parse_relationships
ParseRelationships(relationships_data) ==
    [n \in DOMAIN relationships_data |->
        RelationshipDefinition(relationships_data[n].target_types,
                               relationships_data[n].cardinality)]

\* FileSchemaLoader._parse_entity_schema
ParseEntitySchema(schema_data, readonly_metadata) ==
    EntitySchema(ParseFieldDefinitions(schema_data.required_metadata, TRUE),
                 ParseFieldDefinitions(schema_data.optional_metadata, FALSE),
                 ParseFieldDefinitions(readonly_metadata, FALSE),
                 ParseRelationships(schema_data.relationships),
                 schema_data.dgraph_type)

\* one message of validate_schema_consistency: its kind and the entity type
\* and name it quotes
ConsistencyError(kind, entity_type, name) ==
    [kind |-> kind, entity_type |-> entity_type, name |-> name]

\* the number of entries of all_field_names and the set of them
AllFieldNamesLen(schema) ==
    Cardinality(DOMAIN schema.required_fields)
        + Cardinality(DOMAIN schema.optional_fields)
        + Cardinality(DOMAIN schema.readonly_fields)

AllFieldNames(schema) ==
    DOMAIN schema.required_fields \cup DOMAIN schema.optional_fields
        \cup DOMAIN schema.readonly_fields

\* the consistency check without the field / relationship name comparison
ValidateSchemaConsistency_C17(catalog) ==
    UNION {
        {ConsistencyError("unknown_target", t, r) :
            r \in {n \in DOMAIN catalog[t].relationships :
                     catalog[t].relationships[n].target_types
                         \ DOMAIN catalog # {}}}
        \cup (IF AllFieldNamesLen(catalog[t])
                    # Cardinality(AllFieldNames(catalog[t]))
              THEN {ConsistencyError("duplicate_field_names", t, "")}
              ELSE {})
        \cup (IF catalog[t].dgraph_type = ""
              THEN {ConsistencyError("missing_dgraph_type", t, "")}
              ELSE {})
        : t \in DOMAIN catalog}

\* the consistency check without the look-up of relationship target types
ValidateSchemaConsistency_C18(catalog) ==
    UNION {
        (IF AllFieldNamesLen(catalog[t])
               # Cardinality(AllFieldNames(catalog[t]))
         THEN {ConsistencyError("duplicate_field_names", t, "")}
         ELSE {})
        \cup {ConsistencyError("naming_conflict", t, n) :
                n \in DOMAIN catalog[t].relationships
                         \cap AllFieldNames(catalog[t])}
        \cup (IF catalog[t].dgraph_type = ""
              THEN {ConsistencyError("missing_dgraph_type", t, "")}
              ELSE {})
        : t \in DOMAIN catalog}

\* FileSchemaLoader.validate_schema_consistency, as the set of its messages
ValidateSchemaConsistency(catalog) ==
    UNION {
        {ConsistencyError("unknown_target", t, r) :
            r \in {n \in DOMAIN catalog[t].relationships :
                     catalog[t].relationships[n].target_types
                         \ DOMAIN catalog # {}}}
        \cup (IF AllFieldNamesLen(catalog[t])
                    # Cardinality(AllFieldNames(catalog[t]))
              THEN {ConsistencyError("duplicate_field_names", t, "")}
              ELSE {})
        \cup {ConsistencyError("naming_conflict", t, n) :
                n \in DOMAIN catalog[t].relationships
                         \cap AllFieldNames(catalog[t])}
        \cup (IF catalog[t].dgraph_type = ""
              THEN {ConsistencyError("missing_dgraph_type", t, "")}
              ELSE {})
        : t \in DOMAIN catalog}

\* how a load call ended: the exception it raised ("" when it returned),
\* the messages of a SchemaValidationError, and (history) the directory
\* content the call read
NoDir == [exists |-> FALSE, base |-> "absent", files |-> <<>>]
LoadResult(raised, errors, dir) ==
    [raised |-> raised, errors |-> errors, dir |-> dir]
NoLoad == LoadResult("none", {}, NoDir)

\* FileSchemaLoader.get_entity_schema: self.schemas.get(entity_type)
GetEntitySchema(catalog, entity_type) ==
    IF entity_type \in DOMAIN catalog THEN <<catalog[entity_type]>> ELSE <<>>

-----------------------------------------------------------------------------
(* Schema migrations: change detection and the additive-only rule *)

\* a definition that may be None: <<>> or <<definition>>
FieldChange(entity_type, field_name, change_type, old_definition, new_definition) ==
    [entity_type |-> entity_type, field_name |-> field_name,
     change_type |-> change_type, old_definition |-> old_definition,
     new_definition |-> new_definition]

RelationshipChange(entity_type, relationship_name, change_type, old_definition, new_definition) ==
    [entity_type |-> entity_type, relationship_name |-> relationship_name,
     change_type |-> change_type, old_definition |-> old_definition,
     new_definition |-> new_definition]

EntityTypeChange(entity_type, change_type) ==
    [entity_type |-> entity_type, change_type |-> change_type]

\* SchemaChangeDetector._get_all_fields: required, then optional, then
\* readonly fields, a later list overriding an earlier one
GetAllFields(schema) ==
    Updated(Updated(schema.required_fields, schema.optional_fields),
            schema.readonly_fields)

\* a comparison that never calls two field definitions equal
FieldDefinitionsDiffer_C22(old_def, new_def) ==
    \/ old_def.type # new_def.type
    \/ old_def.required = new_def.required

\* SchemaChangeDetector._field_definitions_differ
FieldDefinitionsDiffer(old_def, new_def) ==
    \/ old_def.type # new_def.type
    \/ old_def.required # new_def.required
    \/ old_def.validation # new_def.validation

\* SchemaChangeDetector._relationship_definitions_differ
RelationshipDefinitionsDiffer(old_def, new_def) ==
    \/ old_def.target_types # new_def.target_types
    \/ old_def.cardinality # new_def.cardinality

\* SchemaChangeDetector._detect_field_changes
DetectFieldChanges(entity_type, old_schema, new_schema) ==
    LET old_fields == GetAllFields(old_schema)
        new_fields == GetAllFields(new_schema)
    IN {FieldChange(entity_type, n, "add", <<>>, <<new_fields[n]>>) :
           n \in DOMAIN new_fields \ DOMAIN old_fields}
       \cup {FieldChange(entity_type, n, "remove", <<old_fields[n]>>, <<>>) :
           n \in DOMAIN old_fields \ DOMAIN new_fields}
       \cup {FieldChange(entity_type, n, "modify", <<old_fields[n]>>,
                         <<new_fields[n]>>) :
           n \in {c \in DOMAIN old_fields \cap DOMAIN new_fields :
                    FieldDefinitionsDiffer(old_fields[c], new_fields[c])}}

\* SchemaChangeDetector._detect_relationship_changes
DetectRelationshipChanges(entity_type, old_schema, new_schema) ==
    LET old_relationships == old_schema.relationships
        new_relationships == new_schema.relationships
    IN {RelationshipChange(entity_type, n, "add", <<>>,
                           <<new_relationships[n]>>) :
           n \in DOMAIN new_relationships \ DOMAIN old_relationships}
       \cup {RelationshipChange(entity_type, n, "remove",
                                <<old_relationships[n]>>, <<>>) :
           n \in DOMAIN old_relationships \ DOMAIN new_relationships}
       \cup {RelationshipChange(entity_type, n, "modify",
                                <<old_relationships[n]>>,
                                <<new_relationships[n]>>) :
           n \in {c \in DOMAIN old_relationships \cap DOMAIN new_relationships :
                    RelationshipDefinitionsDiffer(old_relationships[c],
                                                  new_relationships[c])}}

\* SchemaChangeDetector.detect_changes; each list of SchemaChanges as the
\* set of its elements
DetectChanges(old, new) ==
    [status |-> "detected",
     field_changes |->
         UNION {DetectFieldChanges(t, old[t], new[t]) :
                t \in DOMAIN old \cap DOMAIN new},
     relationship_changes |->
         UNION {DetectRelationshipChanges(t, old[t], new[t]) :
                t \in DOMAIN old \cap DOMAIN new},
     entity_type_changes |->
         {EntityTypeChange(t, "add") : t \in DOMAIN new \ DOMAIN old}
         \cup {EntityTypeChange(t, "remove") : t \in DOMAIN old \ DOMAIN new}]

ValidationViolation(violation_type, entity_type, element_name) ==
    [violation_type |-> violation_type, entity_type |-> entity_type,
     element_name |-> element_name]

\* AdditiveChangeValidator._validate_field_change
ValidateFieldChange(field_change) ==
    CASE field_change.change_type = "remove" ->
            {ValidationViolation("field_removed", field_change.entity_type,
                                 field_change.field_name)}
      [] field_change.change_type = "modify" ->
            (IF field_change.old_definition[1].type
                    # field_change.new_definition[1].type
             THEN {ValidationViolation("field_type_changed",
                                       field_change.entity_type,
                                       field_change.field_name)}
             ELSE {})
            \cup (IF ~field_change.old_definition[1].required
                     /\ field_change.new_definition[1].required
                  THEN {ValidationViolation("field_made_required",
                                            field_change.entity_type,
                                            field_change.field_name)}
                  ELSE {})
      [] field_change.change_type = "add"
            /\ field_change.new_definition[1].required ->
            {ValidationViolation("required_field_added",
                                 field_change.entity_type,
                                 field_change.field_name)}
      [] OTHER -> {}

\* AdditiveChangeValidator._validate_relationship_change
ValidateRelationshipChange(rel_change) ==
    CASE rel_change.change_type = "remove" ->
            {ValidationViolation("relationship_removed", rel_change.entity_type,
                                 rel_change.relationship_name)}
      [] rel_change.change_type = "modify" ->
            IF rel_change.old_definition[1].target_types
                   \ rel_change.new_definition[1].target_types # {}
            THEN {ValidationViolation("relationship_targets_removed",
                                      rel_change.entity_type,
                                      rel_change.relationship_name)}
            ELSE {}
      [] OTHER -> {}

\* AdditiveChangeValidator._validate_entity_type_change
ValidateEntityTypeChange(entity_change) ==
    IF entity_change.change_type = "remove"
    THEN {ValidationViolation("entity_type_removed", entity_change.entity_type,
                              entity_change.entity_type)}
    ELSE {}

\* the validator without the optional-to-required check
ValidateAdditiveOnly_C19(detected) ==
    LET violations ==
            UNION {ValidateFieldChange(c) \ {ValidationViolation(
                       "field_made_required", c.entity_type, c.field_name)} :
                   c \in detected.field_changes}
            \cup UNION {ValidateRelationshipChange(c) :
                        c \in detected.relationship_changes}
            \cup UNION {ValidateEntityTypeChange(c) :
                        c \in detected.entity_type_changes}
    IN [status |-> "validated", is_valid |-> violations = {},
        violations |-> violations]

\* the validator rejecting every modified relationship
ValidateAdditiveOnly_C20(detected) ==
    LET violations ==
            UNION {ValidateFieldChange(c) : c \in detected.field_changes}
            \cup UNION {IF c.change_type = "modify"
                        THEN {ValidationViolation("relationship_targets_removed",
                                  c.entity_type, c.relationship_name)}
                        ELSE ValidateRelationshipChange(c) :
                        c \in detected.relationship_changes}
            \cup UNION {ValidateEntityTypeChange(c) :
                        c \in detected.entity_type_changes}
    IN [status |-> "validated", is_valid |-> violations = {},
        violations |-> violations]

\* AdditiveChangeValidator.validate_additive_only
ValidateAdditiveOnly(detected) ==
    LET violations ==
            UNION {ValidateFieldChange(c) : c \in detected.field_changes}
            \cup UNION {ValidateRelationshipChange(c) :
                        c \in detected.relationship_changes}
            \cup UNION {ValidateEntityTypeChange(c) :
                        c \in detected.entity_type_changes}
    IN [status |-> "validated", is_valid |-> violations = {},
        violations |-> violations]

-----------------------------------------------------------------------------
(* Schema versions *)

\* int(s) of a numeral given as its decimal digits
RECURSIVE IntOf(_)
IntOf(digits) ==
    IF digits = <<>> THEN 0
    ELSE 10 * IntOf(SubSeq(digits, 1, Len(digits) - 1)) + digits[Len(digits)]

\* SchemaVersionManager._parse_version on the parts of version.split(".");
\* <<>> stands for the ValueError
ParseVersion(version) ==
    IF Len(version) # 3 THEN <<>>
    ELSE <<<<IntOf(version[1]), IntOf(version[2]), IntOf(version[3])>>>>

\* an increment check that lets every higher major version through
IsValidVersionIncrement_C21(old, new, only_additive) ==
    LET old_parts == ParseVersion(old)
        new_parts == ParseVersion(new)
    IN IF old_parts = <<>> \/ new_parts = <<>> THEN "ValueError"
       ELSE IF new_parts[1][1] > old_parts[1][1] THEN "True"
       ELSE "False"

\* SchemaVersionManager.is_valid_version_increment
IsValidVersionIncrement(old, new, only_additive) ==
    LET old_parts == ParseVersion(old)
        new_parts == ParseVersion(new)
    IN IF old_parts = <<>> \/ new_parts = <<>> THEN "ValueError"
       ELSE
       LET old_major == old_parts[1][1]
           old_minor == old_parts[1][2]
           old_patch == old_parts[1][3]
           new_major == new_parts[1][1]
           new_minor == new_parts[1][2]
           new_patch == new_parts[1][3]
       IN IF new_major > old_major
          THEN (IF ~only_additive THEN "True" ELSE "False")
          ELSE IF new_major = old_major
          THEN IF new_minor > old_minor
               THEN (IF only_additive THEN "True" ELSE "False")
               ELSE (IF new_minor = old_minor /\ new_patch > old_patch
                     THEN "True" ELSE "False")
          ELSE "False"

-----------------------------------------------------------------------------
(* The descriptors and ids the specifications draw from *)

External(eco, pkg, ver) == Str("external://", <<eco, pkg, ver>>)
Internal(ns, name) == Str("internal://", <<ns, name>>)

Requests231 == External("pypi", "requests", "2.31.0")
Requests232 == External("pypi", "requests", "2.32.0")
R1 == PlainId("demo", "r1")
R2 == PlainId("demo", "r2")

PlainBody(fields) == Body(fields, <<>>, EmptyMap, NoRels)
InlineBody(fields, name, targets) ==
    Body(fields, <<>>, [k \in {name} |-> targets], NoRels)
NestedBody(fields, name, targets) ==
    Body(fields, <<>>, EmptyMap, RelsDict([k \in {name} |-> targets]))

Repos(dicts) == EntitySection(<<TypeEntry("repository", dicts)>>)
One(name, body) == EntityDict(<<Named(name, body)>>)

Demo(section) == Mapping(TopKeys, StrVal("1.0.0"), StrVal("demo"), section)

\* descriptors handed to kg apply
ApplyTexts ==
    { Demo(EntitySection(<<>>)),
      Demo(Repos(<<One("r1", PlainBody("f1"))>>)),
      Demo(Repos(<<One("r1", InlineBody("f1", "depends_on", <<Requests231>>))>>)),
      Demo(Repos(<<One("r1", NestedBody("f1", "depends_on", <<Requests232>>))>>)),
      Demo(Repos(<<One("r1", PlainBody("f1")),
                   One("r2", InlineBody("f1", "internal_depends_on", <<Internal("demo", "r1")>>))>>)),
      Demo(Repos(<<One("r1", PlainBody("f1")), One("r1", PlainBody("f2"))>>)),
      Demo(Repos(<<One("r2", InlineBody("f1", "depends_on", <<Internal("demo", "r1")>>))>>)),
      Demo(Repos(<<One("r2", InlineBody("f1", "depends_on", <<Requests231, Requests231>>)),
                   One("r1", InlineBody("f1", "depends_on", <<Requests231>>))>>)),
      Demo(Repos(<<One("r1", Body("f1", <<"missing_required_field">>, EmptyMap, NoRels))>>)),
      Mapping(TopKeys, StrVal("2.0.0"), StrVal("demo"),
              Repos(<<One("r1", PlainBody("f1"))>>)),
      Demo(Repos(<<One("r1", NonDictBody)>>)),
      NonMapping("number"),
      Unparsed("empty"),
      Unparsed("syntax_error") }

Sections ==
    { EntitySection(<<>>),
      Repos(<<One("r1", PlainBody("f1"))>>),
      Repos(<<One("r1", InlineBody("f1", "depends_on", <<Requests231>>))>>),
      Repos(<<One("r2", InlineBody("f1", "depends_on",
                                   <<Internal("demo", "r1"), Internal("demo", "r3")>>))>>),
      Repos(<<One("r2", InlineBody("f1", "depends_on",
                                   <<Str("", <<"pypi", "requests">>)>>))>>),
      Repos(<<One("r1", PlainBody("f1")), One("r1", PlainBody("f2"))>>),
      Repos(<<One("r1", PlainBody("f3"))>>),
      Repos(<<One("r1", Body("f1", <<"missing_required_field",
                                     "invalid_email_format">>, EmptyMap, NoRels))>>),
      EntitySection(<<TypeEntry("team", <<One("t1", PlainBody("f1"))>>)>>),
      EntitySection(<<NonListEntry("repository")>>),
      Repos(<<NonDictEntity>>),
      Repos(<<One("r1", NonDictBody)>>),
      NonDictSection }

\* descriptor texts handed to the validator
ValidateTexts ==
    { Unparsed("syntax_error"), Unparsed("empty"),
      NonMapping("list"), NonMapping("number") }
    \cup { Mapping(keys, v, ns, section) :
             keys \in SUBSET TopKeys,
             v \in {StrVal("1.0.0"), StrVal("2.0.0"), OtherVal},
             ns \in {StrVal("demo"), StrVal("Bad_NS"), OtherVal},
             section \in Sections }

-----------------------------------------------------------------------------
(* Specifications *)

Pending ==
    [outcome |-> "pending", is_valid |-> FALSE, errors |-> <<>>,
     warnings |-> <<>>, has_model |-> FALSE]

NoRelCall ==
    [entity_type |-> "", entity_id |-> Str("", <<>>),
     yaml_relationships |-> EmptyMap, fault |-> NoFault, before |-> {}]

StorageEmpty ==
    /\ backend \in Backends
    /\ entities = EmptyMap
    /\ nodes = <<>>
    /\ edges = {}
    /\ clock = 0
    /\ first_created = EmptyMap

ValidateIdle ==
    /\ document = Unparsed("empty")
    /\ result = Pending
    /\ sync_result = Pending
    /\ plain_result = Pending
    /\ strict = FALSE
    /\ final_result = Pending

ApplyIdle ==
    /\ pc = "idle"
    /\ applies = 0
    /\ run = NoRun
    /\ records = <<>>
    /\ idx = 1
    /\ entities_created = 0
    /\ entities_updated = 0
    /\ exit_code = NoCode
    /\ error_type = ""
    /\ calls = <<>>
    /\ snapshot = [entities |-> EmptyMap, nodes |-> <<>>, edges |-> {}]
    /\ prev = NoPrev

RelIdle ==
    /\ rel_call = NoRelCall
    /\ rel_result = "none"
    /\ rel_log = <<>>

NoObservation == [entity_type |-> "", got |-> <<>>, expected |-> <<>>]

LoaderIdle ==
    /\ disk = NoDir
    /\ schemas = EmptyMap
    /\ last_loaded = NoTime
    /\ load_pc = "idle"
    /\ todo = <<>>
    /\ base_schemas = EmptyMap
    /\ entity_schemas = EmptyMap
    /\ load_result = NoLoad
    /\ loads = 0
    /\ committed = EmptyMap
    /\ observed = NoObservation

NoChanges ==
    [status |-> "none", field_changes |-> {}, relationship_changes |-> {},
     entity_type_changes |-> {}]

NoAdditive == [status |-> "none", is_valid |-> FALSE, violations |-> {}]

VersionIdle ==
    /\ old_version = <<>>
    /\ new_version = <<>>
    /\ additive_only = FALSE
    /\ increment = "none"

MigrateIdle ==
    /\ old_schemas = EmptyMap
    /\ new_schemas = EmptyMap
    /\ changes = NoChanges
    /\ additive = NoAdditive
    /\ VersionIdle

(* any sequence of store_entity calls on one backend *)

StoreTypes == {"repository", "external_dependency_version"}
StoreIds == {R1, R2}
StoreData == {Meta("v1", EmptyMap), Meta("v2", EmptyMap)}
StoreMeta == {[namespace |-> "demo", source_name |-> "r"]}

StorageInit ==
    /\ StorageEmpty /\ ValidateIdle /\ ApplyIdle /\ RelIdle
    /\ LoaderIdle /\ MigrateIdle

StoreEntity ==
    /\ clock < MaxClock
    /\ \E t \in StoreTypes, i \in StoreIds, d \in StoreData, m \in StoreMeta :
          DoStoreEntity(t, i, d, m)
    /\ UNCHANGED <<backend, edges, validateVars, applyVars, relVars, loaderVars, migrateVars>>

StorageNext == StoreEntity

SpecStorage == StorageInit /\ [][StorageNext]_vars

(* the validator run on one descriptor text *)

ValidateInit ==
    /\ backend \in Backends
    /\ \E stored \in BOOLEAN :
          LET m == [namespace |-> "demo", source_name |-> "r1"] IN
          /\ entities = IF stored /\ backend = "mock"
                        THEN MockStoreEntity(EmptyMap, "repository", R1,
                                             Meta("f1", EmptyMap), m, 0)
                        ELSE EmptyMap
          /\ nodes = IF stored /\ backend = "dgraph"
                     THEN DgraphStoreEntity(<<>>, "repository", R1,
                                            Meta("f1", EmptyMap), m, 0)
                     ELSE <<>>
          /\ clock = IF stored THEN 1 ELSE 0
          /\ first_created = IF stored
                             THEN [k \in {Key("repository", R1)} |-> 0]
                             ELSE EmptyMap
    /\ edges = {}
    /\ document \in ValidateTexts
    /\ result = Pending
    /\ sync_result = Pending
    /\ plain_result = Pending
    /\ strict \in BOOLEAN
    /\ final_result = Pending
    /\ ApplyIdle
    /\ RelIdle
    /\ LoaderIdle
    /\ MigrateIdle

RunValidate ==
    /\ result.outcome = "pending"
    /\ result' = Validate(document)
    /\ UNCHANGED <<storageVars, document, sync_result, plain_result, strict,
                   final_result, applyVars, relVars, loaderVars, migrateVars>>

RunValidateSync ==
    /\ sync_result.outcome = "pending"
    /\ sync_result' = ValidateSync(document)
    /\ UNCHANGED <<storageVars, document, result, plain_result, strict,
                   final_result, applyVars, relVars, loaderVars, migrateVars>>

RunValidateNoStorage ==
    /\ plain_result.outcome = "pending"
    /\ plain_result' = ValidateNoStorage(document)
    /\ UNCHANGED <<storageVars, document, result, sync_result, strict,
                   final_result, applyVars, relVars, loaderVars, migrateVars>>

RunCliValidate ==
    /\ final_result.outcome = "pending"
    /\ final_result' = CliValidate(document, strict)
    /\ UNCHANGED <<storageVars, document, result, sync_result, plain_result,
                   strict, applyVars, relVars, loaderVars, migrateVars>>

ValidateNext ==
    \/ RunValidate
    \/ RunValidateSync
    \/ RunValidateNoStorage
    \/ RunCliValidate

SpecValidate == ValidateInit /\ [][ValidateNext]_vars

(* kg apply run repeatedly against one backend.  The backend object lives *)
(* across the runs (a Dgraph cluster, or the MockStorage instance that    *)
(* create_storage is made to return)                                      *)

ApplyInit ==
    /\ StorageEmpty /\ ValidateIdle /\ ApplyIdle /\ RelIdle
    /\ LoaderIdle /\ MigrateIdle

\* the run ends before the storage loop
Exit(code, type, issued) ==
    /\ pc' = "idle"
    /\ exit_code' = code
    /\ error_type' = type
    /\ calls' = issued
    /\ records' = <<>>
    /\ idx' = 1

\* _apply_implementation from its first line to the storage loop: every
\* early exit, the validation pipeline, extraction and the whole dry run
ApplyStart ==
    /\ pc = "idle"
    /\ applies < MaxApplies
    /\ \E text \in ApplyTexts, dry_run \in BOOLEAN, env \in Envs :
          LET pre == PreStorage(env, text, Validate(text))
              entity_list == ExtractEntitiesFromYaml(text)
          IN
          /\ run' = [text |-> text, dry_run |-> dry_run, env |-> env]
          /\ prev' = [text |-> run.text, applied |-> Applied]
          /\ applies' = applies + 1
          /\ snapshot' = Snapshot
          /\ entities_created' = 0
          /\ entities_updated' = 0
          /\ IF pre.exit_code # NoCode
             THEN /\ Exit(pre.exit_code, pre.error_type, <<>>)
                  /\ UNCHANGED <<entities, nodes>>
             ELSE IF dry_run /\ env = "dry_run_raises"
             THEN /\ Exit(3, "dry_run_error", <<Call("dry_run_apply", 0, FALSE, TRUE)>>)
                  /\ UNCHANGED <<entities, nodes>>
             ELSE IF dry_run
             THEN LET m == MockDryRunApply(entities, entity_list)
                      d == DgraphDryRunApply(nodes, entity_list)
                      has_errors == IF backend = "mock" THEN m.has_errors
                                    ELSE d.has_errors
                  IN /\ entities' = IF backend = "mock" THEN m.entities
                                    ELSE entities
                     /\ nodes' = IF backend = "mock" THEN nodes ELSE d.nodes
                     /\ Exit(IF has_errors THEN 1 ELSE 0, "",
                             <<Call("dry_run_apply", 0, FALSE, FALSE)>>)
             ELSE /\ pc' = "storing"
                  /\ records' = entity_list
                  /\ idx' = 1
                  /\ exit_code' = NoCode
                  /\ error_type' = ""
                  /\ calls' = <<>>
                  /\ UNCHANGED <<entities, nodes>>
    /\ UNCHANGED <<backend, edges, clock, first_created, validateVars, relVars, loaderVars, migrateVars>>

\* one pass of the storage loop: get_entity, store_entity, tally
ApplyRecord ==
    /\ pc = "storing"
    /\ idx <= Len(records)
    /\ LET entity == records[idx]
           existing_entity ==
               GetEntity(entity.entity_type, entity.entity_id) # {}
       IN /\ DoStoreEntity(entity.entity_type, entity.entity_id,
                           entity.metadata, entity.system_metadata)
          /\ entities_updated' = entities_updated + (IF existing_entity THEN 1 ELSE 0)
          /\ entities_created' = entities_created + (IF existing_entity THEN 0 ELSE 1)
          /\ calls' = calls \o <<Call("get_entity", idx, existing_entity, FALSE),
                                 Call("store_entity", idx, existing_entity, FALSE)>>
    /\ idx' = idx + 1
    /\ UNCHANGED <<backend, edges, validateVars, relVars, loaderVars, migrateVars, pc, applies, run,
                   records, exit_code, error_type, snapshot, prev>>

\* a pass in which get_entity or store_entity raises, continued without
\* leaving the loop
ApplyRecordFails_C9 ==
    /\ pc = "storing"
    /\ idx <= Len(records)
    /\ \E op \in {"get_entity", "store_entity"} :
          calls' = calls \o <<Call(op, idx, FALSE, TRUE)>>
    /\ idx' = idx + 1
    /\ error_type' = "storage_operation_error"
    /\ UNCHANGED <<storageVars, validateVars, relVars, loaderVars, migrateVars, pc, applies, run,
                   records, exit_code, entities_created, entities_updated,
                   snapshot, prev>>

\* a pass in which get_entity or store_entity raises: the except clause
\* around the loop reports storage_operation_error and exits with 3
ApplyRecordFails ==
    /\ pc = "storing"
    /\ idx <= Len(records)
    /\ \E op \in {"get_entity", "store_entity"} :
          LET existing_entity ==
                  GetEntity(records[idx].entity_type, records[idx].entity_id) # {}
          IN calls' = calls \o
                (IF op = "get_entity"
                 THEN <<Call("get_entity", idx, FALSE, TRUE)>>
                 ELSE <<Call("get_entity", idx, existing_entity, FALSE),
                        Call("store_entity", idx, existing_entity, TRUE)>>)
    /\ pc' = "idle"
    /\ exit_code' = 3
    /\ error_type' = "storage_operation_error"
    /\ UNCHANGED <<storageVars, validateVars, relVars, loaderVars, migrateVars, applies, run, records,
                   idx, entities_created, entities_updated, snapshot, prev>>

\* the loop is done: the summary is printed and the run exits with 0
ApplyFinish ==
    /\ pc = "storing"
    /\ idx > Len(records)
    /\ pc' = "idle"
    /\ exit_code' = 0
    /\ UNCHANGED <<storageVars, validateVars, relVars, loaderVars, migrateVars, applies, run, records,
                   idx, entities_created, entities_updated, error_type, calls,
                   snapshot, prev>>

ApplyNext == ApplyStart \/ ApplyRecord \/ ApplyRecordFails \/ ApplyFinish

SpecApply == ApplyInit /\ [][ApplyNext]_vars

(* one replace_entity_relationships call on a backend that holds edges *)

Requests233 == External("pypi", "requests", "2.33.0")
RequestsPackage == Str("external://", <<"pypi", "requests">>)

\* edges that earlier calls may have left in the backend
PriorEdges ==
    { Edge("repository", R1, "depends_on", "external_dependency_version", Requests231),
      Edge("repository", R1, "depends_on", "external_dependency_version", Requests233),
      Edge("repository", R1, "internal_depends_on", "repository", Internal("demo", "r2")),
      Edge("repository", R1, "has_version", "external_dependency_version", Requests231),
      Edge("repository", R2, "depends_on", "external_dependency_version", Requests231),
      Edge("external_dependency_package", RequestsPackage, "has_version",
           "external_dependency_version", Requests231) }

RelEntities ==
    { <<"repository", R1>>,
      <<"external_dependency_package", RequestsPackage>>,
      <<"team", PlainId("demo", "t1")>> }

\* stands for "the key is missing" in RelLists
Absent == <<Str("absent", <<>>)>>

\* the lists a relationship map may hold under each key
RelLists ==
    [depends_on : {Absent, <<>>, <<Requests231>>, <<Requests232>>,
                   <<Requests231, Requests232>>},
     internal_depends_on : {Absent, <<Internal("demo", "r2")>>},
     has_version : {Absent, <<Requests232>>, <<RequestsPackage, Requests232>>},
     owned_by : {Absent, <<PlainId("demo", "t1")>>}]

RelMap(lists) ==
    [k \in {n \in DOMAIN lists : lists[n] # Absent} |-> lists[k]]

RelFaults ==
    {NoFault} \cup
    { Fault(name, kind) : name \in RelNames,
                          kind \in {"remove_raises", "create_false",
                                    "create_raises"} }

RelInit ==
    /\ backend \in Backends
    /\ entities = EmptyMap
    /\ nodes = <<>>
    /\ edges \in SUBSET PriorEdges
    /\ clock = 0
    /\ first_created = EmptyMap
    /\ ValidateIdle
    /\ ApplyIdle
    /\ RelIdle
    /\ LoaderIdle
    /\ MigrateIdle

ReplaceRelationships ==
    /\ rel_result = "none"
    /\ \E target \in RelEntities, lists \in RelLists, fault \in RelFaults :
          LET done == ReplaceEntityRelationships(edges, target[1], target[2],
                                                 RelMap(lists), fault)
          IN /\ rel_call' = [entity_type |-> target[1],
                             entity_id |-> target[2],
                             yaml_relationships |-> RelMap(lists),
                             fault |-> fault,
                             before |-> edges]
             /\ edges' = done.edges
             /\ rel_log' = done.log
             /\ rel_result' = done.result
    /\ UNCHANGED <<backend, entities, nodes, clock, first_created,
                   validateVars, applyVars, loaderVars, migrateVars>>

RelNext == ReplaceRelationships

SpecRel == RelInit /\ [][RelNext]_vars

-----------------------------------------------------------------------------
(* Schema directories and load_schemas / reload_schemas on them *)

FieldConfig(type, validation) == [type |-> type, validation |-> validation]
RelConfig(target_types) ==
    [target_types |-> target_types, cardinality |-> "one_to_many"]

OwnersField == [n \in {"owners"} |-> FieldConfig("array", "email")]
DependsOnRel(targets) == [n \in {"depends_on"} |-> RelConfig(targets)]

RepositoryV1 ==
    SchemaData("repository", "base_internal", OwnersField, EmptyMap, EmptyMap,
               DependsOnRel({"repository"}), "Repository")

RepositoryFiles ==
    { RepositoryV1,
      SchemaData("repository", "base_internal", OwnersField,
                 [n \in {"url"} |-> FieldConfig("string", "url")], EmptyMap,
                 DependsOnRel({"repository", "team"}), "Repository"),
      SchemaData("repository", "", OwnersField,
                 [n \in {"depends_on"} |-> FieldConfig("string", "")], EmptyMap,
                 DependsOnRel({"repository"}), "Repository"),
      SchemaData("repository", "", OwnersField,
                 [n \in {"owners"} |-> FieldConfig("array", "email")], EmptyMap,
                 DependsOnRel({"repository"}), "Repository"),
      SchemaData("repository", "", OwnersField, EmptyMap, EmptyMap,
                 DependsOnRel({"repository"}), ""),
      SchemaData("repository", "base_internal", OwnersField, EmptyMap, EmptyMap,
                 [n \in {"created_at"} |-> RelConfig({"repository"})],
                 "Repository") }

TeamFile ==
    SchemaData("team", "", OwnersField, EmptyMap, EmptyMap, EmptyMap, "Team")

\* files that yield no schema: a YAML error, an empty file, a mapping
\* without entity_type, one without schema_version
BrokenFiles ==
    { [TeamFile EXCEPT !.yaml = "yaml_error"],
      [TeamFile EXCEPT !.yaml = "empty"],
      [TeamFile EXCEPT !.has_entity_type = FALSE],
      [TeamFile EXCEPT !.has_schema_version = FALSE] }

TeamFiles ==
    { TeamFile,
      [TeamFile EXCEPT !.extends = "base_x"],
      [TeamFile EXCEPT !.relationships =
          [n \in {"maintains"} |-> RelConfig({"repository", "service"})]] }

\* readonly_metadata of base_internal.yaml
BaseInternal == [n \in {"created_at"} |-> FieldConfig("datetime", "")]

Dir(base, files) == [exists |-> TRUE, base |-> base, files |-> files]

Disks ==
    {NoDir, Dir("yaml_error", <<RepositoryV1>>)}
    \cup {Dir(base, <<r>>) : base \in {"absent", "ok"}, r \in RepositoryFiles}
    \cup {Dir(base, <<r, t>>) :
            base \in {"absent", "ok"}, r \in RepositoryFiles, t \in TeamFiles}
    \cup {Dir("ok", <<RepositoryV1, t>>) : t \in BrokenFiles}
    \cup {Dir("ok", <<t, RepositoryV1>>) : t \in BrokenFiles}

LoaderInit ==
    /\ backend = "mock"
    /\ entities = EmptyMap
    /\ nodes = <<>>
    /\ edges = {}
    /\ clock = 0
    /\ first_created = EmptyMap
    /\ ValidateIdle /\ ApplyIdle /\ RelIdle /\ MigrateIdle
    /\ disk \in Disks
    /\ schemas = EmptyMap
    /\ last_loaded = NoTime
    /\ load_pc = "idle"
    /\ todo = <<>>
    /\ base_schemas = EmptyMap
    /\ entity_schemas = EmptyMap
    /\ load_result = NoLoad
    /\ loads = 0
    /\ committed = EmptyMap
    /\ observed = NoObservation

\* the schema files are edited between two loads
ChangeDisk ==
    /\ load_pc = "idle"
    /\ loads < MaxLoads
    /\ load_result # NoLoad
    /\ disk = load_result.dir
    /\ disk' \in Disks \ {disk}
    /\ UNCHANGED <<schemas, last_loaded, load_pc, todo, base_schemas,
                   entity_schemas, load_result, loads, committed, observed>>
    /\ UNCHANGED <<storageVars, validateVars, applyVars, relVars, migrateVars>>

\* the call ends by raising: nothing of the loader is assigned
LoadRaises(exception) ==
    /\ load_pc' = "idle"
    /\ load_result' = LoadResult(exception, {}, load_result.dir)
    /\ todo' = <<>>
    /\ base_schemas' = EmptyMap
    /\ entity_schemas' = EmptyMap
    /\ UNCHANGED <<schemas, last_loaded, committed>>

\* load_schemas / reload_schemas up to the end of _load_base_schemas
LoadStart ==
    /\ load_pc = "idle"
    /\ loads < MaxLoads
    /\ loads' = loads + 1
    /\ IF ~disk.exists \/ disk.base = "yaml_error"
       THEN /\ load_pc' = "idle"
            /\ load_result' = LoadResult("SchemaLoadError", {}, disk)
            /\ UNCHANGED <<todo, base_schemas, entity_schemas>>
       ELSE /\ load_pc' = "loading"
            /\ load_result' = LoadResult("running", {}, disk)
            /\ base_schemas' = IF disk.base = "ok"
                               THEN [b \in {"base_internal"} |-> BaseInternal]
                               ELSE EmptyMap
            /\ todo' = disk.files
            /\ entity_schemas' = EmptyMap
    /\ UNCHANGED <<disk, schemas, last_loaded, committed, observed>>
    /\ UNCHANGED <<storageVars, validateVars, applyVars, relVars, migrateVars>>

\* a load that puts each parsed schema straight into self.schemas
LoadFile_C16 ==
    /\ load_pc = "loading"
    /\ todo # <<>>
    /\ LET schema_data == Head(todo)
           resolved == ResolveInheritance(schema_data, base_schemas)
       IN IF schema_data.yaml = "ok" /\ schema_data.has_entity_type
             /\ ~resolved.raised /\ schema_data.has_schema_version
          THEN /\ schemas' = Updated(schemas,
                      [t \in {schema_data.entity_type} |->
                          ParseEntitySchema(schema_data, resolved.readonly_metadata)])
               /\ entity_schemas' = Updated(entity_schemas,
                      [t \in {schema_data.entity_type} |->
                          ParseEntitySchema(schema_data, resolved.readonly_metadata)])
               /\ todo' = Tail(todo)
               /\ UNCHANGED <<load_pc, load_result, base_schemas, last_loaded,
                              committed>>
          ELSE /\ LoadRaises("SchemaLoadError")
    /\ UNCHANGED <<disk, loads, observed>>
    /\ UNCHANGED <<storageVars, validateVars, applyVars, relVars, migrateVars>>

\* _load_entity_schemas: one schema file read, resolved and parsed
LoadFile ==
    /\ load_pc = "loading"
    /\ todo # <<>>
    /\ LET schema_data == Head(todo)
           resolved == ResolveInheritance(schema_data, base_schemas)
       IN CASE schema_data.yaml = "yaml_error" -> LoadRaises("SchemaLoadError")
            [] schema_data.yaml = "empty" -> LoadRaises("TypeError")
            [] schema_data.yaml = "ok" /\ ~schema_data.has_entity_type ->
                 /\ todo' = Tail(todo)
                 /\ UNCHANGED <<schemas, last_loaded, load_pc, base_schemas,
                                entity_schemas, load_result, committed>>
            [] OTHER ->
                 IF resolved.raised \/ ~schema_data.has_schema_version
                 THEN LoadRaises("SchemaLoadError")
                 ELSE /\ entity_schemas' = Updated(entity_schemas,
                             [t \in {schema_data.entity_type} |->
                                 ParseEntitySchema(schema_data,
                                                   resolved.readonly_metadata)])
                      /\ todo' = Tail(todo)
                      /\ UNCHANGED <<schemas, last_loaded, load_pc,
                                     base_schemas, load_result, committed>>
    /\ UNCHANGED <<disk, loads, observed>>
    /\ UNCHANGED <<storageVars, validateVars, applyVars, relVars, migrateVars>>

\* the consistency check and, when it finds nothing, the assignment of
\* self.schemas and self.last_loaded
LoadCheck ==
    /\ load_pc = "loading"
    /\ todo = <<>>
    /\ LET errors == ValidateSchemaConsistency(entity_schemas) IN
       IF errors # {}
       THEN /\ load_result' = LoadResult("SchemaValidationError", errors,
                                         load_result.dir)
            /\ UNCHANGED <<schemas, last_loaded, committed>>
       ELSE /\ schemas' = entity_schemas
            /\ last_loaded' = loads
            /\ committed' = entity_schemas
            /\ load_result' = LoadResult("", {}, load_result.dir)
    /\ load_pc' = "idle"
    /\ base_schemas' = EmptyMap
    /\ entity_schemas' = EmptyMap
    /\ UNCHANGED <<disk, todo, loads, observed>>
    /\ UNCHANGED <<storageVars, validateVars, applyVars, relVars, migrateVars>>

\* a reader calls get_entity_schema at any moment
ReadSchema ==
    /\ \E entity_type \in {"repository", "team"} :
          observed' = [entity_type |-> entity_type,
                       got |-> GetEntitySchema(schemas, entity_type),
                       expected |-> GetEntitySchema(committed, entity_type)]
    /\ UNCHANGED <<disk, schemas, last_loaded, load_pc, todo, base_schemas,
                   entity_schemas, load_result, loads, committed>>
    /\ UNCHANGED <<storageVars, validateVars, applyVars, relVars, migrateVars>>

LoaderNext == ChangeDisk \/ LoadStart \/ LoadFile \/ LoadCheck \/ ReadSchema

SpecLoader == LoaderInit /\ [][LoaderNext]_vars

-----------------------------------------------------------------------------
(* Catalog pairs handed to detect_changes and validate_additive_only *)

OwnersVariants ==
    { [n \in {"owners"} |-> FieldDefinition("array", TRUE, "email")],
      [n \in {"owners"} |-> FieldDefinition("string", TRUE, "email")] }

UrlField(type, required, validation) ==
    [n \in {"url"} |-> FieldDefinition(type, required, validation)]

\* the url field: absent, optional, required, readonly, optional with
\* another validation; as (required, optional, readonly) field lists
UrlVariants ==
    { <<EmptyMap, EmptyMap, EmptyMap>>,
      <<EmptyMap, UrlField("string", FALSE, "url"), EmptyMap>>,
      <<UrlField("string", TRUE, "url"), EmptyMap, EmptyMap>>,
      <<EmptyMap, EmptyMap, UrlField("string", FALSE, "url")>>,
      <<EmptyMap, UrlField("string", FALSE, ""), EmptyMap>> }

DependsOnVariants ==
    { EmptyMap,
      [n \in {"depends_on"} |->
          RelationshipDefinition({"repository"}, "one_to_many")],
      [n \in {"depends_on"} |->
          RelationshipDefinition({"repository", "team"}, "one_to_many")] }

RepositorySchemas ==
    { EntitySchema(Updated(o, u[1]), u[2], u[3], d, "Repository") :
        o \in OwnersVariants, u \in UrlVariants, d \in DependsOnVariants }

TeamSchemas ==
    { EntitySchema(EmptyMap, EmptyMap, EmptyMap, EmptyMap, "Team"),
      EntitySchema(EmptyMap, UrlField("string", FALSE, "url"), EmptyMap,
                   [n \in {"maintains"} |->
                       RelationshipDefinition({"repository"}, "one_to_many")],
                   "Team") }

\* the catalogs a loader can hold: those that pass the consistency check
Catalogs ==
    { c \in { [t \in {"repository"} |-> r] : r \in RepositorySchemas }
            \cup { [t \in {"team"} |-> m] : m \in
                      {x \in TeamSchemas : x.relationships = EmptyMap} }
            \cup { Updated([t \in {"repository"} |-> r], [t \in {"team"} |-> m]) :
                      r \in RepositorySchemas, m \in TeamSchemas } :
        ValidateSchemaConsistency(c) = {} }

MigrateInit ==
    /\ backend = "mock"
    /\ entities = EmptyMap
    /\ nodes = <<>>
    /\ edges = {}
    /\ clock = 0
    /\ first_created = EmptyMap
    /\ ValidateIdle /\ ApplyIdle /\ RelIdle /\ LoaderIdle
    /\ old_schemas \in Catalogs
    /\ new_schemas \in Catalogs
    /\ changes = NoChanges
    /\ additive = NoAdditive
    /\ VersionIdle

RunDetectChanges ==
    /\ changes.status = "none"
    /\ changes' = DetectChanges(old_schemas, new_schemas)
    /\ UNCHANGED <<old_schemas, new_schemas, additive, versionVars>>
    /\ UNCHANGED <<storageVars, validateVars, applyVars, relVars, loaderVars>>

RunValidateAdditiveOnly ==
    /\ changes.status = "detected"
    /\ additive.status = "none"
    /\ additive' = ValidateAdditiveOnly(changes)
    /\ UNCHANGED <<old_schemas, new_schemas, changes, versionVars>>
    /\ UNCHANGED <<storageVars, validateVars, applyVars, relVars, loaderVars>>

MigrateNext == RunDetectChanges \/ RunValidateAdditiveOnly

SpecMigrate == MigrateInit /\ [][MigrateNext]_vars

-----------------------------------------------------------------------------
(* Version pairs handed to is_valid_version_increment *)

\* the numerals "0", "1", "9", "10" and "01"
Numerals == {<<0>>, <<1>>, <<9>>, <<1, 0>>, <<0, 1>>}

\* version texts: three numerals, or two ("1.0")
VersionTexts ==
    {<<a, b, c>> : a \in {<<0>>, <<1>>, <<9>>, <<1, 0>>},
                   b \in Numerals, c \in {<<0>>, <<1>>, <<1, 0>>}}
    \cup {<<<<1>>, <<0>>>>}

VersionInit ==
    /\ backend = "mock"
    /\ entities = EmptyMap
    /\ nodes = <<>>
    /\ edges = {}
    /\ clock = 0
    /\ first_created = EmptyMap
    /\ ValidateIdle /\ ApplyIdle /\ RelIdle /\ LoaderIdle
    /\ old_schemas = EmptyMap
    /\ new_schemas = EmptyMap
    /\ changes = NoChanges
    /\ additive = NoAdditive
    /\ old_version \in VersionTexts
    /\ new_version \in VersionTexts
    /\ additive_only \in BOOLEAN
    /\ increment = "none"

RunIsValidVersionIncrement ==
    /\ increment = "none"
    /\ increment' = IsValidVersionIncrement(old_version, new_version,
                                            additive_only)
    /\ UNCHANGED <<old_version, new_version, additive_only>>
    /\ UNCHANGED <<old_schemas, new_schemas, changes, additive>>
    /\ UNCHANGED <<storageVars, validateVars, applyVars, relVars, loaderVars>>

VersionNext == RunIsValidVersionIncrement

SpecVersion == VersionInit /\ [][VersionNext]_vars

-----------------------------------------------------------------------------
(* Claims about the storage contract *)

\* C1: at most one stored entity (node) exists per (entity_type, entity_id),
\* whatever sequence of store_entity calls was made; a store_entity for an
\* existing (type, id) never creates a second one.
C1_OneEntityPerKey ==
    \A t \in StoreTypes, i \in StoreIds : EntityCount(t, i) <= 1

\* C5: once a (type, id) has been stored, the created_at that get_entity
\* returns equals the created_at of its first creation, after any number of
\* later store_entity calls.
C5_CreatedAtPreserved ==
    \A t \in StoreTypes, i \in StoreIds :
        Key(t, i) \in DOMAIN first_created =>
            \A e \in GetEntity(t, i) : e.created_at = first_created[Key(t, i)]

-----------------------------------------------------------------------------
(* Claims about the validation pipeline *)

\* C10: for an input that fails YAML parsing, validate and validate_sync
\* return right after Layer 1 with is_valid false, exactly one error, of type
\* yaml_syntax_error, no warning of a later layer and no model.
C10_SyntaxErrorStopsAtLayer1 ==
    document.yaml = "syntax_error" =>
        \A r \in {result, sync_result} :
            r.outcome # "pending" =>
                /\ r.outcome = "returned"
                /\ ~r.is_valid
                /\ Len(r.errors) = 1
                /\ r.errors[1].type = "yaml_syntax_error"
                /\ r.warnings = <<>>
                /\ ~r.has_model

C10_Witness ==
    /\ document.yaml = "syntax_error"
    /\ result.outcome = "returned"
    /\ sync_result.outcome = "returned"

\* Layer 2 has something critical to find in the document: a top-level key
\* is missing, or schema_version is a string other than a supported version
HasCriticalStructureError(text) ==
    /\ text.yaml = "ok"
    /\ text.top \in {"mapping", "list"}
    /\ \/ TopKeys \ text.keys # {}
       \/ /\ text.schema_version.kind = "str"
          /\ text.schema_version.v # "1.0.0"

\* the (type, field) pairs of all the structure findings of the document
StructureFindings(text) ==
    {<<"missing_required_field", k>> : k \in TopKeys \ text.keys}
    \cup {<<"invalid_field_type", k>> :
            k \in {f \in text.keys \cap {"schema_version", "namespace"} :
                     text[f].kind # "str"}}
    \cup {<<"unsupported_schema_version", k>> :
            k \in {f \in text.keys \cap {"schema_version"} :
                     text[f].kind = "str" /\ text[f].v # "1.0.0"}}
    \cup {<<"invalid_namespace_format", k>> :
            k \in {f \in text.keys \cap {"namespace"} :
                     text[f].kind = "str" /\ text[f].v \notin {"demo", "a"}}}
    \cup {<<"invalid_field_type", k>> :
            k \in {f \in text.keys \cap {"entity"} : text[f].kind # "dict"}}

\* C11: when Layer 2 finds a missing_required_field or an
\* unsupported_schema_version error, the pipeline returns right after Layer 2
\* with is_valid false and no model, and the error list is exactly the
\* structure errors of the document: none dropped, none of a later layer.
C11_CriticalStructureExit ==
    \A r \in {result, sync_result, plain_result} :
        (r.outcome # "pending" /\ HasCriticalStructureError(document)) =>
            /\ r.outcome = "returned"
            /\ ~r.is_valid
            /\ ~r.has_model
            /\ r.warnings = <<>>
            /\ {<<e.type, e.field>> : e \in Range(r.errors)}
                  = StructureFindings(document)
            /\ Len(r.errors) = Cardinality(StructureFindings(document))

C11_Witness ==
    /\ result.outcome = "returned"
    /\ sync_result.outcome = "returned"
    /\ document.top = "mapping"
    /\ "entity" \notin document.keys
    /\ \E e \in Range(result.errors) : e.type = "invalid_namespace_format"
    /\ \E e \in Range(result.errors) : e.type = "unsupported_schema_version"

\* C12: for every descriptor text, a document whose top level is no mapping
\* included, validate and validate_sync finish by returning a
\* ValidationResult; no call ends with a raised exception.
C12_NeverRaises ==
    \A r \in {result, sync_result, plain_result} : r.outcome # "raised"

\* the internal:// references written under depends_on of the repositories
\* of the descriptor, as (repository name, canonical id) pairs in order
DescriptorInternalDeps(text) ==
    LET entries == text.entity.items
        ofBody(nb) ==
            LET listed ==
                    (IF "depends_on" \in DOMAIN nb.body.inline
                     THEN nb.body.inline["depends_on"] ELSE <<>>)
                    \o (IF "depends_on" \in DOMAIN nb.body.relationships.map
                        THEN nb.body.relationships.map["depends_on"] ELSE <<>>)
            IN ConcatAll([k \in 1..Len(listed) |->
                   IF listed[k].scheme = "internal://"
                   THEN <<[entity |-> nb.name, id |-> Str("", listed[k].segs)]>>
                   ELSE <<>>])
        ofDict(d) == ConcatAll([j \in 1..Len(d.items) |-> ofBody(d.items[j])])
        ofEntry(t) ==
            IF t.entity_type = "repository"
            THEN ConcatAll([j \in 1..Len(t.items) |-> ofDict(t.items[j])])
            ELSE <<>>
    IN ConcatAll([i \in 1..Len(entries) |-> ofEntry(entries[i])])

\* error types of Layers 1 to 3; a result without any got past Layer 3
EarlyLayerTypes ==
    {"yaml_syntax_error", "empty_yaml_content", "missing_required_field",
     "unsupported_schema_version", "invalid_field_type",
     "invalid_namespace_format", "unknown_entity_type",
     "invalid_entity_structure", "pattern_mismatch", "invalid_email_format"}

ReachedLayer5(r) ==
    /\ r.outcome = "returned"
    /\ \A e \in Range(r.errors) : e.type \notin EarlyLayerTypes

\* C13: with a storage handle, a result that got to Layer 5 holds one
\* reference_not_found error for each internal:// dependency whose id is
\* not in storage and none for one whose id is there; without a storage
\* handle no reference_not_found error is produced.
C13_ReferenceNotFound ==
    /\ ReachedLayer5(result) =>
           LET deps == DescriptorInternalDeps(document)
               missing == {k \in 1..Len(deps) : ~EntityExists(deps[k].id)}
               found == {i \in 1..Len(result.errors) :
                           result.errors[i].type = "reference_not_found"}
           IN /\ Cardinality(found) = Cardinality(missing)
              /\ \A k \in missing : \E i \in found :
                     result.errors[i].entity = deps[k].entity
    /\ \A r \in {sync_result, plain_result} :
           \A e \in Range(r.errors) : e.type # "reference_not_found"

\* the owner email domains written in the repositories of the descriptor
DescriptorOwnerDomains(text) ==
    LET entries == text.entity.items IN
    UNION {UNION {UNION {{o.domain : o \in Range(Owners(d.items[j].body.fields))} :
                         j \in 1..Len(d.items)} :
                  d \in Range(entries[i].items)} :
           i \in {k \in 1..Len(entries) : entries[k].entity_type = "repository"}}

\* C14: with strict mode the final errors are the errors of the non-strict
\* result followed by its warnings turned into errors, and a descriptor
\* whose only finding is a warning (owner emails of several domains) is
\* invalid.
C14_StrictPromotesWarnings ==
    (strict /\ final_result.outcome = "returned"
            /\ plain_result.outcome = "returned") =>
        /\ final_result.errors = plain_result.errors \o plain_result.warnings
        /\ (/\ Cardinality(DescriptorOwnerDomains(document)) > 1
            /\ \A e \in Range(final_result.errors) :
                   e.type = "multiple_owner_domains")
           => (/\ ~final_result.is_valid
               /\ \E e \in Range(final_result.errors) :
                      e.type = "multiple_owner_domains")

\* C15: validate_sync gives the same errors and the same warnings as
\* validate on a validator without storage handle, for every input (a valid
\* one included); the two calls also end the same way.
C15_SyncEqualsValidateWithoutStorage ==
    (sync_result.outcome # "pending" /\ plain_result.outcome # "pending") =>
        /\ sync_result.outcome = plain_result.outcome
        /\ sync_result.errors = plain_result.errors
        /\ sync_result.warnings = plain_result.warnings
        /\ sync_result.is_valid = plain_result.is_valid

C15_Witness ==
    /\ sync_result.outcome = "returned"
    /\ plain_result.outcome = "returned"
    /\ sync_result.is_valid
    /\ document.entity.items # <<>>

-----------------------------------------------------------------------------
(* Claims about the schema loader *)

\* the schema files of a directory that carry an entity_type
DirSchemaFiles(dir) ==
    {dir.files[i] : i \in {k \in 1..Len(dir.files) :
                              dir.files[k].has_entity_type}}

\* every file of the directory can be read, resolved and parsed
DirParses(dir) ==
    /\ dir.exists
    /\ dir.base # "yaml_error"
    /\ \A i \in 1..Len(dir.files) : dir.files[i].yaml = "ok"
    /\ \A f \in DirSchemaFiles(dir) :
          /\ f.has_schema_version
          /\ f.extends # "" => (f.extends = "base_internal" /\ dir.base = "ok")

\* the field names a schema file ends up with, inherited ones included
DirFieldNames(dir, f) ==
    DOMAIN f.required_metadata \cup DOMAIN f.optional_metadata
        \cup DOMAIN f.readonly_metadata
        \cup (IF f.extends = "base_internal" /\ dir.base = "ok"
              THEN DOMAIN BaseInternal ELSE {})

\* (entity type, name) of each name that is both a field and a relationship
DirConflicts(dir) ==
    UNION {{<<f.entity_type, n>> :
               n \in DOMAIN f.relationships \cap DirFieldNames(dir, f)} :
           f \in DirSchemaFiles(dir)}

\* (entity type, relationship) of each relationship with a target type that
\* no schema file of the directory declares
DirUnknownTargets(dir) ==
    UNION {{<<f.entity_type, n>> :
               n \in {r \in DOMAIN f.relationships :
                        f.relationships[r].target_types
                            \ {g.entity_type : g \in DirSchemaFiles(dir)} # {}}} :
           f \in DirSchemaFiles(dir)}

LoadFinished == load_pc = "idle" /\ load_result.raised \notin {"none", "running"}

\* C16: at every moment of any sequence of load_schemas / reload_schemas
\* calls the loader's catalog is the catalog of the most recent successful
\* load, whole: a failed call leaves it as it was, and what a reader gets
\* from get_entity_schema is always an entry of that catalog.
C16_CatalogIsLastSuccessfulLoad ==
    /\ schemas = committed
    /\ observed.got = observed.expected
    /\ (LoadFinished /\ load_result.raised = "") =>
          DOMAIN schemas
              = {f.entity_type : f \in DirSchemaFiles(load_result.dir)}
    /\ \A t \in DOMAIN schemas :
          /\ schemas[t].dgraph_type # ""
          /\ \A r \in DOMAIN schemas[t].relationships :
                schemas[t].relationships[r].target_types \subseteq DOMAIN schemas

C16_Witness ==
    /\ LoadFinished
    /\ loads = 2
    /\ load_result.raised \in {"SchemaLoadError", "SchemaValidationError"}
    /\ schemas # EmptyMap
    /\ observed.got # <<>>

\* C17: a directory in which a schema has a field and a relationship of one
\* name does not load: the call raises SchemaValidationError with a message
\* naming the entity type and the name; in the loader's catalog the field
\* names and the relationship names of every schema are disjoint.
C17_NoFieldRelationshipConflict ==
    /\ \A t \in DOMAIN schemas :
          DOMAIN schemas[t].relationships \cap AllFieldNames(schemas[t]) = {}
    /\ (LoadFinished /\ DirParses(load_result.dir)
            /\ DirConflicts(load_result.dir) # {}) =>
          /\ load_result.raised = "SchemaValidationError"
          /\ \A c \in DirConflicts(load_result.dir) :
                ConsistencyError("naming_conflict", c[1], c[2])
                    \in load_result.errors

C17_Witness ==
    /\ LoadFinished
    /\ load_result.raised = "SchemaValidationError"
    /\ ConsistencyError("naming_conflict", "repository", "created_at")
          \in load_result.errors
    /\ schemas # EmptyMap

\* C18: in the loader's catalog each target type of every relationship is
\* an entity type of that catalog; a directory where a relationship names a
\* target type no schema declares does not load.
C18_TargetTypesInCatalog ==
    /\ \A t \in DOMAIN schemas :
          \A r \in DOMAIN schemas[t].relationships :
              \A target_type \in schemas[t].relationships[r].target_types :
                  target_type \in DOMAIN schemas
    /\ (LoadFinished /\ DirParses(load_result.dir)
            /\ DirUnknownTargets(load_result.dir) # {}) =>
          /\ load_result.raised = "SchemaValidationError"
          /\ \A c \in DirUnknownTargets(load_result.dir) :
                ConsistencyError("unknown_target", c[1], c[2])
                    \in load_result.errors

C18_Witness ==
    /\ LoadFinished
    /\ load_result.raised = "SchemaValidationError"
    /\ ConsistencyError("unknown_target", "team", "maintains")
          \in load_result.errors
    /\ "team" \notin DOMAIN schemas

-----------------------------------------------------------------------------
(* Claims about schema migrations *)

\* the names in the field lists of a schema, and the definition under a name
SchemaFieldNames(schema) ==
    DOMAIN schema.required_fields \cup DOMAIN schema.optional_fields
        \cup DOMAIN schema.readonly_fields

SchemaFieldType(schema, n) ==
    IF n \in DOMAIN schema.required_fields THEN schema.required_fields[n].type
    ELSE IF n \in DOMAIN schema.optional_fields
         THEN schema.optional_fields[n].type
    ELSE schema.readonly_fields[n].type

\* the violations the breaking differences between two catalogs call for
BreakingDifferences(old, new) ==
    {ValidationViolation("entity_type_removed", t, t) :
        t \in DOMAIN old \ DOMAIN new}
    \cup UNION {
        {ValidationViolation("field_removed", t, n) :
            n \in SchemaFieldNames(old[t]) \ SchemaFieldNames(new[t])}
        \cup {ValidationViolation("field_type_changed", t, n) :
            n \in {c \in SchemaFieldNames(old[t]) \cap SchemaFieldNames(new[t]) :
                     SchemaFieldType(old[t], c) # SchemaFieldType(new[t], c)}}
        \cup {ValidationViolation("field_made_required", t, n) :
            n \in (SchemaFieldNames(old[t]) \ DOMAIN old[t].required_fields)
                     \cap DOMAIN new[t].required_fields}
        \cup {ValidationViolation("relationship_removed", t, n) :
            n \in DOMAIN old[t].relationships \ DOMAIN new[t].relationships}
        \cup {ValidationViolation("relationship_targets_removed", t, n) :
            n \in {c \in DOMAIN old[t].relationships
                            \cap DOMAIN new[t].relationships :
                     old[t].relationships[c].target_types
                         \ new[t].relationships[c].target_types # {}}}
        : t \in DOMAIN old \cap DOMAIN new}

\* C19: when the new catalog removes a field, a relationship or an entity
\* type, makes an optional field required, changes a field's type or drops
\* a target type of a relationship, validate_additive_only of the detected
\* changes is invalid and holds a violation of the matching kind for it.
C19_BreakingChangesRejected ==
    additive.status = "validated" =>
        /\ BreakingDifferences(old_schemas, new_schemas)
               \subseteq additive.violations
        /\ BreakingDifferences(old_schemas, new_schemas) # {}
               => ~additive.is_valid

C19_Witness ==
    /\ additive.status = "validated"
    /\ ~additive.is_valid
    /\ {v.violation_type : v \in additive.violations}
          = {"field_removed", "field_type_changed", "relationship_removed",
             "entity_type_removed"}

\* the new catalog differs from the old one only by added optional fields,
\* added relationships, added entity types and added target types
OnlyAdditions(old, new) ==
    /\ DOMAIN old \subseteq DOMAIN new
    /\ \A t \in DOMAIN old :
          /\ new[t].required_fields = old[t].required_fields
          /\ new[t].readonly_fields = old[t].readonly_fields
          /\ new[t].dgraph_type = old[t].dgraph_type
          /\ DOMAIN old[t].optional_fields \subseteq DOMAIN new[t].optional_fields
          /\ \A n \in DOMAIN old[t].optional_fields :
                new[t].optional_fields[n] = old[t].optional_fields[n]
          /\ DOMAIN old[t].relationships \subseteq DOMAIN new[t].relationships
          /\ \A n \in DOMAIN old[t].relationships :
                /\ old[t].relationships[n].target_types
                      \subseteq new[t].relationships[n].target_types
                /\ old[t].relationships[n].cardinality
                      = new[t].relationships[n].cardinality

\* C20: for a catalog pair that differs only by additions (optional fields,
\* relationships, entity types, relationship target types),
\* validate_additive_only of the detected changes is valid and holds no
\* violation.
C20_AdditionsAccepted ==
    (additive.status = "validated" /\ OnlyAdditions(old_schemas, new_schemas)) =>
        /\ additive.is_valid
        /\ additive.violations = {}

C20_Witness ==
    /\ additive.status = "validated"
    /\ OnlyAdditions(old_schemas, new_schemas)
    /\ additive.is_valid
    /\ \E c \in changes.entity_type_changes : c.change_type = "add"
    /\ \E c \in changes.field_changes : c.change_type = "add"
    /\ \E c \in changes.relationship_changes : c.change_type = "modify"

\* the number a numeral of the version texts stands for
NumeralValue(numeral) ==
    CASE numeral = <<0>> -> 0
      [] numeral = <<1>> -> 1
      [] numeral = <<0, 1>> -> 1
      [] numeral = <<9>> -> 9
      [] numeral = <<1, 0>> -> 10

\* C21: is_valid_version_increment is true exactly for a higher minor under
\* the same major with additive_only, a higher patch under the same major
\* and minor, or a higher major without additive_only; it is false for
\* every equal and every backward version.
C21_VersionIncrement ==
    (increment # "none" /\ Len(old_version) = 3 /\ Len(new_version) = 3) =>
        LET o == [i \in 1..3 |-> NumeralValue(old_version[i])]
            n == [i \in 1..3 |-> NumeralValue(new_version[i])]
            allowed ==
                \/ n[1] = o[1] /\ n[2] > o[2] /\ additive_only
                \/ n[1] = o[1] /\ n[2] = o[2] /\ n[3] > o[3]
                \/ n[1] > o[1] /\ ~additive_only
            notForward ==
                \/ n = o
                \/ n[1] < o[1]
                \/ n[1] = o[1] /\ n[2] < o[2]
                \/ n[1] = o[1] /\ n[2] = o[2] /\ n[3] < o[3]
        IN /\ increment \in {"True", "False"}
           /\ increment = "True" <=> allowed
           /\ notForward => increment = "False"

C21_Witness ==
    /\ increment = "True"
    /\ additive_only
    /\ old_version = <<<<1>>, <<9>>, <<1>>>>
    /\ new_version = <<<<1>>, <<1, 0>>, <<0>>>>

\* C22: detect_changes of a catalog against itself reports no field change,
\* no relationship change and no entity-type change.
C22_NoChangesOnSameCatalog ==
    (changes.status = "detected" /\ old_schemas = new_schemas) =>
        /\ changes.field_changes = {}
        /\ changes.relationship_changes = {}
        /\ changes.entity_type_changes = {}

C22_Witness ==
    /\ changes.status = "detected"
    /\ old_schemas = new_schemas
    /\ DOMAIN old_schemas = {"repository", "team"}
    /\ old_schemas["repository"].relationships # EmptyMap
    /\ old_schemas["repository"].optional_fields # EmptyMap

-----------------------------------------------------------------------------
(* Claims about kg apply *)

SnapshotCount(entity_type, entity_id) ==
    IF backend = "mock"
    THEN MockCount(snapshot.entities, entity_type, entity_id)
    ELSE DgraphCount(snapshot.nodes, entity_type, entity_id)

SnapshotTotal ==
    IF backend = "mock"
    THEN Cardinality(UNION {{<<t, i>> : i \in DOMAIN snapshot.entities[t]} :
                            t \in DOMAIN snapshot.entities})
    ELSE Len(snapshot.nodes)

NoWriteIssued == \A i \in 1..Len(calls) : calls[i].op \notin WriteOps

\* the targets the descriptor gives an entity for one relationship name
DescriptorTargets(entity, name) ==
    IF name \in DOMAIN entity.metadata.lists
    THEN Range(entity.metadata.lists[name]) ELSE {}

\* C2: after a successful non-dry-run apply, for every entity of the
\* descriptor and every relationship its schema declares, the targets of the
\* edges of that relationship leaving the entity in the backend are exactly
\* the descriptor's targets (none when the descriptor has no such key), also
\* after an earlier apply that declared other targets.
C2_EdgesEqualDescriptor ==
    (pc = "idle" /\ Applied) =>
        \A i \in 1..Len(records) :
            \A name \in SchemaRelNames(records[i].entity_type) :
                OutgoingTargets(records[i].entity_type, records[i].entity_id, name)
                    = DescriptorTargets(records[i], name)

\* "external://<eco>/<pkg>" of "external://<eco>/<pkg>/<ver>"
ExternalPackageId(uri) ==
    Str("external://", SubSeq(uri.segs, 1, Len(uri.segs) - 1))

\* C4: after a successful apply of a descriptor in which an entity's
\* depends_on holds external://<eco>/<pkg>/<ver>, the backend holds an
\* external_dependency_package with id external://<eco>/<pkg>, an
\* external_dependency_version with the full URI as id, and a has_version
\* edge from the package to the version.
C4_ExternalDependencyEntities ==
    (pc = "idle" /\ Applied) =>
        \A i \in 1..Len(records) :
            \A uri \in DescriptorTargets(records[i], "depends_on") :
                (uri.scheme = "external://" /\ Len(uri.segs) >= 3) =>
                    /\ EntityCount("external_dependency_package",
                                   ExternalPackageId(uri)) >= 1
                    /\ EntityCount("external_dependency_version", uri) >= 1
                    /\ uri \in OutgoingTargets("external_dependency_package",
                                               ExternalPackageId(uri),
                                               "has_version")

\* C6: when the catalog load fails, or the validation pipeline reports an
\* error for the descriptor, the run issues no write call (no store_entity,
\* no relationship creation or removal) and leaves the backend's entities and
\* edges as they were when it started.
C6_NoWriteOnFatalError ==
    LET v == Pipeline(run.text, TRUE, [backend |-> backend,
                                       entities |-> snapshot.entities,
                                       nodes |-> snapshot.nodes]) IN
    (applies > 0 /\ (\/ run.env = "catalog_fails"
                     \/ (v.outcome = "returned" /\ v.errors # <<>>))) =>
        /\ NoWriteIssued
        /\ Snapshot = snapshot

C6_Witness ==
    /\ pc = "idle"
    /\ error_type = "validation_failed"
    /\ run.env = "ok"
    /\ ~run.dry_run
    /\ ExtractEntitiesFromYaml(run.text) # <<>>
    /\ SnapshotTotal > 0

\* C7: a dry run writes nothing: whatever the descriptor and the backend
\* content before it, the entities and edges of the backend are the same
\* after the dry run as before it, and store_entity is never called.
C7_DryRunWritesNothing ==
    (applies > 0 /\ run.dry_run) =>
        /\ Snapshot = snapshot
        /\ NoWriteIssued

C7_Witness ==
    /\ pc = "idle"
    /\ run.dry_run
    /\ exit_code = 0
    /\ \E i \in 1..Len(calls) : calls[i].op = "dry_run_apply"
    /\ ExtractEntitiesFromYaml(run.text) # <<>>
    /\ SnapshotTotal > 0

\* the lookup of record i finds nothing: its (type, id) was not in the
\* backend when the run started and no earlier record of the run stored it
AbsentAtLookup(i) ==
    /\ SnapshotCount(records[i].entity_type, records[i].entity_id) = 0
    /\ \A j \in 1..(i - 1) :
          Key(records[j].entity_type, records[j].entity_id)
              # Key(records[i].entity_type, records[i].entity_id)

\* C8: in every apply the created count is the number of records whose
\* (type, id) was absent when looked up and the updated count is the number
\* of the other records; so applying a descriptor and applying it again
\* unchanged reports 0 created the second time and leaves the number of
\* entities in the backend unchanged.
C8_TallyAndReapply ==
    (pc = "idle" /\ Applied) =>
        /\ entities_created
              = Cardinality({i \in 1..Len(records) : AbsentAtLookup(i)})
        /\ entities_updated = Len(records) - entities_created
        /\ (prev.applied /\ prev.text = run.text) =>
              /\ entities_created = 0
              /\ TotalEntities = SnapshotTotal

RunValidation ==
    Pipeline(run.text, TRUE,
             [backend |-> backend, entities |-> snapshot.entities,
              nodes |-> snapshot.nodes])

\* the stages of a run in the order the command goes through them, each
\* with the exit code its failure calls for; the first failing one decides
FirstFailure ==
    IF run.env \in {"file_missing", "file_unreadable"} THEN 2
    ELSE IF run.text.yaml = "syntax_error" THEN 1
    ELSE IF run.env = "catalog_fails" THEN 4
    ELSE IF run.env \in {"server", "connect_fails"} THEN 3
    ELSE IF RunValidation.outcome = "raised" THEN 4
    ELSE IF ~RunValidation.is_valid THEN 1
    ELSE IF run.dry_run /\ run.env = "dry_run_raises" THEN 3
    ELSE IF \E i \in 1..Len(calls) : calls[i].raised THEN 3
    ELSE 0

\* C23: every run of apply ends with one exit code, that of the first
\* stage that fails: 2 for the file, 1 for a descriptor that does not
\* validate, 4 for an internal error, 3 for the storage connection or a
\* storage operation, and 0 when the descriptor was applied or the dry run
\* was clean.
C23_ExitCodes ==
    /\ pc = "storing" => exit_code = NoCode
    /\ (pc = "idle" /\ applies > 0) =>
          /\ exit_code \in 0..4
          /\ exit_code = FirstFailure
          /\ exit_code = 0 =>
                \/ run.dry_run
                \/ /\ idx = Len(records) + 1
                   /\ entities_created + entities_updated = Len(records)

C23_Witness ==
    /\ pc = "idle"
    /\ applies = 2
    /\ prev.applied
    /\ exit_code = 3
    /\ error_type = "storage_operation_error"
    /\ entities_created + entities_updated > 0

-----------------------------------------------------------------------------
\* how many times the has_version edge from the package of an external URI
\* to its version is held by the backend
HasVersionEdges(uri) ==
    IF uri \in OutgoingTargets("external_dependency_package",
                               ExternalPackageId(uri), "has_version")
    THEN 1 ELSE 0

\* how many times an external URI occurs in the depends_on lists of the
\* records of the run
RECURSIVE Occurrences(_, _)
Occurrences(uri, targets) ==
    IF targets = <<>> THEN 0
    ELSE (IF Head(targets) = uri THEN 1 ELSE 0) + Occurrences(uri, Tail(targets))

DependsOnList(entity) ==
    IF "depends_on" \in DOMAIN entity.metadata.lists
    THEN entity.metadata.lists["depends_on"] ELSE <<>>

\* C26: after a successful apply, the has_version edge from the package to
\* the version of every external URI of the descriptor's depends_on lists
\* exists exactly once, also when the URI occurs in the lists of several
\* entities or several times in one list.
C26_HasVersionExactlyOnce ==
    (pc = "idle" /\ Applied) =>
        \A i \in 1..Len(records) :
            \A uri \in DescriptorTargets(records[i], "depends_on") :
                (uri.scheme = "external://" /\ Len(uri.segs) >= 3) =>
                    HasVersionEdges(uri) = 1

\* a successful apply of a descriptor that names one external URI twice in
\* one list and once more in the list of another entity
C26_RepeatedUri ==
    /\ pc = "idle" /\ Applied
    /\ Len(records) = 2
    /\ Occurrences(Requests231, DependsOnList(records[1])) = 2
    /\ Occurrences(Requests231, DependsOnList(records[2])) = 1

\* the lookup of the storage loop for record i returned no entity
LookupAbsent(i) ==
    \E c \in 1..Len(calls) : /\ calls[c].op = "get_entity"
                              /\ calls[c].rec = i
                              /\ ~calls[c].found

\* C27: in the summary of an apply, the operation reported for each record
\* is "created" exactly when the lookup for that record returned absent and
\* "updated" otherwise, for every ordering of new and existing entities.
C27_OperationMatchesLookup ==
    (pc = "idle" /\ Applied) =>
        \A i \in 1..Len(records) :
            Operations[i].operation = "created" <=> LookupAbsent(i)

\* a successful apply whose first record existed and whose second did not
C27_ExistingBeforeNew ==
    /\ pc = "idle" /\ Applied
    /\ Len(records) = 2
    /\ ~LookupAbsent(1)
    /\ LookupAbsent(2)
    /\ Operations[1].operation = "created"
    /\ Operations[2].operation = "updated"

\* the records the previous run stored
PrevRecords ==
    IF prev.applied THEN ExtractEntitiesFromYaml(prev.text) ELSE <<>>

\* "internal://<namespace>/<name>" of a stored record
InternalRefOf(rec) ==
    Internal(rec.system_metadata.namespace, rec.system_metadata.source_name)

\* the storage the validator of the current run was built with
SnapshotStorage ==
    [backend |-> backend, entities |-> snapshot.entities,
     nodes |-> snapshot.nodes]

\* every depends_on reference of the descriptor of the current run names an
\* entity the previous run stored
RefersToStoredOnly ==
    \A i \in 1..Len(ExtractEntitiesFromYaml(run.text)) :
        DescriptorTargets(ExtractEntitiesFromYaml(run.text)[i], "depends_on")
            \subseteq {InternalRefOf(PrevRecords[j]) : j \in 1..Len(PrevRecords)}

\* C30: after a successful apply stored the entity n of a descriptor with
\* namespace ns, the validation of a later run on the same storage reports
\* no reference_not_found for internal://ns/n: the id Layer 5 passes to
\* entity_exists, the reference without its prefix, is the id the apply
\* stored the entity under.
C30_StoredIdIsReferenceId ==
    (applies > 0 /\ prev.applied) =>
        /\ \A j \in 1..Len(PrevRecords) :
               /\ ReferenceEntityId(InternalRefOf(PrevRecords[j]))
                      = PrevRecords[j].entity_id
               /\ StorageEntityExists(SnapshotStorage,
                      ReferenceEntityId(InternalRefOf(PrevRecords[j])))
        /\ (ReachedValidation(run.env, run.text) /\ RefersToStoredOnly) =>
               \A e \in Range(RunValidation.errors) :
                   e.type # "reference_not_found"

C30_Witness ==
    /\ pc = "idle" /\ applies = 2 /\ prev.applied /\ Applied
    /\ Len(PrevRecords) > 0
    /\ RefersToStoredOnly
    /\ \E i \in 1..Len(records) :
          Internal("demo", "r1") \in DescriptorTargets(records[i], "depends_on")
    /\ RunValidation.is_valid

(* Claims about the relationship processor *)

\* C3: after replace_entity_relationships(entity_type, entity_id, rels) has
\* run against a storage whose removal and creation calls succeed, for every
\* relationship the entity type's schema declares, the targets of the edges
\* of that relationship leaving the entity are exactly rels[r], and there
\* are none when rels has no key r, whatever edges the entity had before.
C3_ReplacementGuarantee ==
    (rel_result # "none" /\ rel_call.fault = NoFault) =>
        \A name \in SchemaRelNames(rel_call.entity_type) :
            EdgeTargets(edges, rel_call.entity_type, rel_call.entity_id, name)
                = IF name \in DOMAIN rel_call.yaml_relationships
                  THEN Range(rel_call.yaml_relationships[name])
                  ELSE {}

C3_Witness ==
    /\ rel_result = "True"
    /\ rel_call.fault = NoFault
    /\ rel_call.entity_type = "repository"
    /\ "internal_depends_on" \notin DOMAIN rel_call.yaml_relationships
    /\ "depends_on" \in DOMAIN rel_call.yaml_relationships
    /\ Requests232 \in Range(rel_call.yaml_relationships["depends_on"])
    /\ EdgeTargets(rel_call.before, "repository", rel_call.entity_id,
                   "depends_on") = {Requests231, Requests233}
    /\ EdgeTargets(rel_call.before, "repository", rel_call.entity_id,
                   "internal_depends_on") # {}

\* the positions in rel_log of the calls of one operation for one
\* relationship type
LogCalls(op, name) ==
    {i \in 1..Len(rel_log) : /\ rel_log[i].op = op
                             /\ rel_log[i].relationship_type = name}

\* the edge a create_relationship call of rel_log asked for
LogEdge(i) ==
    Edge(rel_log[i].source_type, rel_log[i].source_id,
         rel_log[i].relationship_type, rel_log[i].target_type,
         rel_log[i].target_id)

\* C24: within one replace_entity_relationships call, for each relationship
\* type the remove_relationships_by_type call has completed before the first
\* create_relationship call of that type, and no removal of the type follows
\* a creation, so every edge the pass created is still there when it ends.
C24_RemoveBeforeCreate ==
    rel_result \in {"True", "False"} =>
        \A name \in RelNames :
            \A i \in LogCalls("create_relationship", name) :
                /\ \E j \in LogCalls("remove_relationships_by_type", name) :
                        j < i /\ rel_log[j].outcome = "True"
                /\ \A j \in LogCalls("remove_relationships_by_type", name) :
                        j < i
                /\ rel_log[i].outcome = "True" => LogEdge(i) \in edges

C24_Witness ==
    /\ rel_result = "True"
    /\ rel_call.entity_type = "repository"
    /\ Cardinality(LogCalls("create_relationship", "depends_on")) = 2
    /\ LogCalls("create_relationship", "internal_depends_on") # {}
    /\ EdgeTargets(rel_call.before, "repository", rel_call.entity_id,
                   "depends_on") = {Requests231, Requests233}
    /\ EdgeTargets(edges, "repository", rel_call.entity_id, "depends_on")
           = {Requests231, Requests232}

\* the edges of a set that one call for rel_call's entity may touch: those
\* leaving the entity under a relationship name its schema declares
OwnDeclaredEdges(es) ==
    {e \in es : /\ e.source_type = rel_call.entity_type
                /\ e.source_id = rel_call.entity_id
                /\ e.relationship_type
                       \in SchemaRelNames(rel_call.entity_type)}

\* C25: replace_entity_relationships issues removal and creation calls only
\* for relationship names the entity type's schema declares and only with
\* the given entity as source; a key of the relationship map the schema does
\* not declare causes no storage call, and every other edge of the backend
\* is left as it was.
C25_OnlyDeclaredOnlyOwn ==
    rel_result # "none" =>
        /\ \A i \in 1..Len(rel_log) :
                /\ rel_log[i].source_type = rel_call.entity_type
                /\ rel_log[i].source_id = rel_call.entity_id
                /\ rel_log[i].relationship_type
                       \in SchemaRelNames(rel_call.entity_type)
        /\ edges \ OwnDeclaredEdges(edges)
               = rel_call.before \ OwnDeclaredEdges(rel_call.before)

C25_Witness ==
    /\ rel_result = "True"
    /\ rel_call.entity_type = "repository"
    /\ {"has_version", "owned_by", "depends_on"}
           \subseteq DOMAIN rel_call.yaml_relationships
    /\ rel_call.before = PriorEdges
    /\ Len(rel_log) > 2
    /\ edges # rel_call.before

\* C28: for a target id that starts with external://, the target entity
\* type of the created edge is external_dependency_version when the id has
\* three path segments and external_dependency_package when it has two.
C28_ExternalTargetType ==
    \A i \in 1..Len(rel_log) :
        (rel_log[i].op = "create_relationship"
            /\ rel_log[i].target_id.scheme = "external://") =>
            /\ Len(rel_log[i].target_id.segs) = 3 =>
                   rel_log[i].target_type = "external_dependency_version"
            /\ Len(rel_log[i].target_id.segs) = 2 =>
                   rel_log[i].target_type = "external_dependency_package"

C28_Witness ==
    /\ rel_result = "True"
    /\ \E i, j \in 1..Len(rel_log) :
          /\ rel_log[i].op = "create_relationship"
          /\ rel_log[i].target_id = RequestsPackage
          /\ rel_log[i].target_type = "external_dependency_package"
          /\ rel_log[j].op = "create_relationship"
          /\ rel_log[j].target_id = Requests232
          /\ rel_log[j].target_type = "external_dependency_version"
          /\ Edge(rel_call.entity_type, rel_call.entity_id, "has_version",
                  "external_dependency_package", RequestsPackage) \in edges

\* the calls of rel_log that did not succeed
FailedCalls == {i \in 1..Len(rel_log) : rel_log[i].outcome # "True"}

\* C29: replace_entity_relationships returns True only if every
\* remove_relationships_by_type and every create_relationship call it
\* issued succeeded; when a removal raises, or a creation returns False or
\* raises, for any declared relationship type, it returns False.
C29_TrueOnlyIfAllSucceeded ==
    /\ rel_result = "True" => FailedCalls = {}
    /\ (rel_result # "none" /\ FailedCalls # {}) => rel_result = "False"

C29_Witness ==
    /\ rel_result = "False"
    /\ rel_call.fault = Fault("depends_on", "create_false")
    /\ Cardinality(FailedCalls) = 2
    /\ \E i \in 1..Len(rel_log) :
          /\ rel_log[i].relationship_type = "internal_depends_on"
          /\ rel_log[i].op = "create_relationship"
          /\ rel_log[i].outcome = "True"

====
